---- MODULE Spec2Model ----
(***************************************************************************)
(* Circuit breaker of cockatiel: CircuitBreakerPolicy with a              *)
(* ConsecutiveBreaker strategy and a halfOpenAfter backoff factory.        *)
(*                                                                         *)
(* Every asynchronous activation of execute() occupies a slot of Calls.   *)
(* An action is one synchronous run of the code between two awaits: the   *)
(* part of execute() up to its first await, the continuation after the    *)
(* wrapped function settled, the continuation after the awaited half-open *)
(* test settled.  The wrapped function is opaque: when it settles and how  *)
(* (success, handled error, unhandled error) is chosen by the environment.*)
(* A settled activation keeps its slot for the step that settles it.      *)
(*                                                                         *)
(* BulkheadPolicy and RetryPolicy are modelled further down, each with its *)
(* own next-state relation and specification over its own variables; so    *)
(* are the breaker strategies (ConsecutiveBreaker, CountBreaker) and the   *)
(* backoffs (ConstantBackoff, IterableBackoff, CompositeBackoff) called on *)
(* their own.                                                              *)
(***************************************************************************)
EXTENDS Integers, Sequences, FiniteSets, TLC

\* Bounds of the model.
NumCalls == 2
NumHandles == 2
MaxTime == 2
MaxCount == 3

\* new ConsecutiveBreaker(2)
Threshold == 2
\* new MyBreaker(0): the halfOpenAfter factory of the backoff tests
FactoryDuration == 0

Calls == 1..NumCalls
Handles == 1..NumHandles
NoCall == 0
\* In place of the owner of an awaited state.test: that promise has settled.
SettledTest == -1

VARIABLES
  innerState,        \* CircuitBreakerPolicy.innerState (the InnerState variant)
  innerLastFailure,  \* CircuitBreakerPolicy.innerLastFailure
  count,             \* ConsecutiveBreaker.count
  now,               \* Date.now()
  pc,                \* position of each activation of execute()
  waitOn,            \* the state.test promise an activation awaits (its owner,
                     \* SettledTest once it has settled)
  result,            \* settlement of the promise execute() returned
  invoked,           \* how often the activation's own fn has been called
  signal,            \* the signal parameter of the activation's execute()
                     \* frame, handed to fn: "caller" or "never"
  aborted,           \* signal.aborted of the signal the caller gave, followed
                     \* while the activation awaits a test
  waited,            \* the activation went through the HalfOpen case
  live,              \* isolate() handles issued and not yet disposed
  emitted            \* emissions of the last action, in order

vars == <<innerState, innerLastFailure, count, now, pc, waitOn, result,
          invoked, signal, aborted, waited, live, emitted>>

\* BulkheadPolicy: every call of execute() by a user is a job of Jobs.
NumJobs == 5
Jobs == 1..NumJobs
\* Policy.bulkhead(2, 2)
capacity == 2
queueCapacity == 2

VARIABLES
  active,            \* BulkheadPolicy.active
  queue,             \* BulkheadPolicy.queue (each item by the job it belongs to)
  where,             \* position of each job
  outcome,           \* settlement of the promise the job's caller holds
  runs,              \* how often the job's fn has been called
  cancelRequested,   \* the signal the job's caller gave is requested
  waitingOrder,      \* history: the jobs accepted and not yet started, in
                     \* the order of their submission
  rejectEmitted      \* the last action emitted onReject

bulkheadVars == <<active, queue, where, outcome, runs, cancelRequested,
                  waitingOrder, rejectEmitted>>

\* The promise of a job is pending.
NoOutcome == [kind |-> "none", src |-> NoCall, limits |-> <<>>]

\* RetryPolicy: every call of execute() is a run of Runs.
NumRuns == 2
Runs == 1..NumRuns
\* The largest count given to attempts(count).
MaxLimit == 2
\* this.options.backoff is undefined
NoBackoff == -1
\* a backoff step that is undefined
NoStep == -1

VARIABLES
  optionsBackoff,    \* RetryPolicy.options.backoff: the limit of the
                     \* ConstantBackoff attempts(count) set, or NoBackoff
  rpc,               \* position of each run of execute()
  retries,           \* the loop variable retries of the run
  step,              \* the local variable backoff of the run: the index of
                     \* the step it holds, or NoStep
  calls,             \* how often the run has called fn
  cancellation,      \* cancellationToken.isCancellationRequested of the run
  giveUps,           \* onGiveUp emissions of the run, in order
  onRetrys,          \* onRetry emissions of the run, in order
  settled            \* settlement of the promise execute() returned

retryVars == <<optionsBackoff, rpc, retries, step, calls, cancellation,
               giveUps, onRetrys, settled>>

\* The breaker strategies on their own: a ConsecutiveBreaker whose success()
\* and failure() are called directly. MaxLog bounds the calls on it.
MaxLog == 6

VARIABLES
  consCount,         \* ConsecutiveBreaker.count
  consLog,           \* the calls made on the breaker, oldest first
  consLast           \* the last call made and what it returned

consecutiveVars == <<consCount, consLog, consLast>>

\* A CountBreaker whose success() and failure() are called directly. MaxSize
\* bounds the size of its window.
MaxSize == 3

VARIABLES
  countBreaker,      \* the CountBreaker: threshold, minimumNumberOfCalls,
                     \* samples, successes, failures, currentSample
  window,            \* the samples recorded since the last reset, oldest
                     \* first, as far as they fit the size of the window
  countLast          \* the last call made, its argument and what it returned

countVars == <<countBreaker, window, countLast>>

\* A backoff on its own, stepped from its factory on. MaxBackoffLimit bounds
\* the limit of a ConstantBackoff, MaxDurations the list of an
\* IterableBackoff, MaxSteps the calls of next() on one chain.
MaxBackoffLimit == 4
MaxDurations == 2
MaxSteps == 5

VARIABLES
  backoffFactory,    \* the factory stepped: a ConstantBackoff, an
                     \* IterableBackoff or a CompositeBackoff of two of them
  backoffA,          \* the step held: its index in the (first) backoff
  backoffB,          \* the step held: its index in the second backoff
  yielded,           \* the durations of the steps next() has returned
  stopped            \* next() has returned undefined

backoffVars == <<backoffFactory, backoffA, backoffB, yielded, stopped>>

\* A SamplingBreaker whose success() and failure() are called directly while
\* the clock advances. MaxClock bounds the clock.
MaxClock == 6

VARIABLES
  sampling,          \* the SamplingBreaker: threshold, minimumRps, duration,
                     \* windowSize, windows, currentWindow, currentFailures,
                     \* currentSuccesses
  samplingNow,       \* Date.now() at the last call
  samplingLog,       \* the samples pushed since the last reset: their
                     \* number, and the failures and the successes pushed
                     \* at each time
  samplingLast       \* the last call made, its argument and what it returned

samplingVars == <<sampling, samplingNow, samplingLog, samplingLast>>

\* The state of the breaker strategies and backoff generators on their own.
partsVars == <<consecutiveVars, countVars, backoffVars, samplingVars>>

\* The state of the policies other than the circuit breaker.
notBreaker == <<bulkheadVars, retryVars, partsVars>>
\* The state of the policies other than the bulkhead.
notBulkhead == <<vars, retryVars, partsVars>>
\* The state of the policies other than the retry policy.
notRetry == <<vars, bulkheadVars, partsVars>>
\* The state of the policies.
policyVars == <<vars, bulkheadVars, retryVars>>
\* The state of all policies.
allVars == <<vars, bulkheadVars, retryVars, partsVars>>

\* No call has been made on a breaker strategy.
NoCallYet == [op |-> "none", returned |-> FALSE]

\* Before `new CountBreaker(...)`.
NoCountBreaker ==
  [threshold |-> <<0, 1>>, minimumNumberOfCalls |-> 0, samples |-> <<>>,
   successes |-> 0, failures |-> 0, currentSample |-> 0]

NoCountCall == [op |-> "none", state |-> "Closed", returned |-> FALSE]

\* Before `new SamplingBreaker(...)`.
NoSamplingBreaker ==
  [threshold |-> <<0, 1>>, minimumRps |-> 0, duration |-> 0, windowSize |-> 0,
   windows |-> <<>>, currentWindow |-> 0, currentFailures |-> 0,
   currentSuccesses |-> 0]

\* No sample has been pushed.
NoSamples ==
  [pushed |-> 0, failures |-> [t \in 0..MaxClock |-> 0],
   successes |-> [t \in 0..MaxClock |-> 0]]

NoSamplingCall == [op |-> "none", state |-> "Closed", returned |-> FALSE]

\* A ConstantBackoff without a limit.
NoLimit == -1

\* No backoff: the second child of a backoff that is not a composite, and
\* the factory before one is constructed.
NoLeaf == [kind |-> "none", interval |-> 0, limit |-> NoLimit, durations |-> <<>>]

NoBackoffFactory == [bias |-> "none", a |-> NoLeaf, b |-> NoLeaf]

\* The promise of a run is pending.
NoReason == [kind |-> "none", attempt |-> 0]

----------------------------------------------------------------------------
\* InnerState variants; a field a variant does not have is 0.

ClosedState ==
  [value |-> "Closed", counters |-> 0, openedAt |-> 0, attemptNo |-> 0,
   backoff |-> 0, test |-> NoCall]

IsolatedState(n) ==
  [value |-> "Isolated", counters |-> n, openedAt |-> 0, attemptNo |-> 0,
   backoff |-> 0, test |-> NoCall]

OpenState(at, attempt, b) ==
  [value |-> "Open", counters |-> 0, openedAt |-> at, attemptNo |-> attempt,
   backoff |-> b, test |-> NoCall]

HalfOpenState(t, attempt, b) ==
  [value |-> "HalfOpen", counters |-> 0, openedAt |-> 0, attemptNo |-> attempt,
   backoff |-> b, test |-> t]

\* get state()
state == innerState.value

NoResult == [kind |-> "none", src |-> NoCall]
NoFailure == [kind |-> "none", src |-> NoCall]

\* { error } as produced by ExecuteWrapper.invoke for a handled throw of call c
FailureReason(c) == [kind |-> "error", src |-> c]

\* What the wrapped function does: resolve, throw an error the policy
\* handles, throw an error it does not handle.
Outcomes == {"success", "error", "unhandled"}

----------------------------------------------------------------------------
\* Backoff: a step is identified by its duration.  MyBreaker.next returns a
\* step one longer than the step it is called on, and leaves that step alone.

BackoffNext(b) == b + 1

halfOpenAfterBackoffFactory == FactoryDuration

\* success() that leaves the streak as it is.
BreakerSuccessKeeps(cnt) == cnt

\* ConsecutiveBreaker.success: this.count = 0
BreakerSuccess(cnt) == 0

\* failure() that answers true only on the call that reaches the threshold.
BreakerFailureOnce(cnt) == [count |-> cnt + 1, open |-> cnt + 1 = Threshold]

\* ConsecutiveBreaker.failure: return ++this.count >= this.threshold
BreakerFailure(cnt) == [count |-> cnt + 1, open |-> cnt + 1 >= Threshold]

----------------------------------------------------------------------------
\* open() that takes the factory's first step and attempt 1 on every opening.
openRestartsBackoff(inner, t) ==
  IF inner.value = "Isolated" \/ inner.value = "Open"
  THEN [inner |-> inner, emits |-> <<>>]
  ELSE [inner |-> OpenState(t, 1, BackoffNext(halfOpenAfterBackoffFactory)),
        emits |-> << <<"onBreak", "failure">>, <<"onStateChange", "Open">> >>]

\* open() that also returns early when the breaker is HalfOpen.
openKeepsHalfOpen(inner, t) ==
  IF inner.value = "Isolated" \/ inner.value = "Open" \/ inner.value = "HalfOpen"
  THEN [inner |-> inner, emits |-> <<>>]
  ELSE [inner |-> OpenState(t, 1, BackoffNext(halfOpenAfterBackoffFactory)),
        emits |-> << <<"onBreak", "failure">>, <<"onStateChange", "Open">> >>]

\* open() that returns early only when the circuit is Open.
openWhileIsolated(inner, t) ==
  IF inner.value = "Open"
  THEN [inner |-> inner, emits |-> <<>>]
  ELSE LET attemptNo == IF inner.value = "HalfOpen" THEN inner.attemptNo ELSE 1
           backoff == IF inner.value = "HalfOpen"
                      THEN BackoffNext(inner.backoff)
                      ELSE BackoffNext(halfOpenAfterBackoffFactory)
       IN [inner |-> OpenState(t, attemptNo, backoff),
           emits |-> << <<"onBreak", "failure">>, <<"onStateChange", "Open">> >>]

\* open(reason): returns the new InnerState and what was emitted.
open(inner, t) ==
  IF inner.value = "Isolated" \/ inner.value = "Open"
  THEN [inner |-> inner, emits |-> <<>>]
  ELSE LET attemptNo == IF inner.value = "HalfOpen" THEN inner.attemptNo ELSE 1
           backoff == IF inner.value = "HalfOpen"
                      THEN BackoffNext(inner.backoff)
                      ELSE BackoffNext(halfOpenAfterBackoffFactory)
       IN [inner |-> OpenState(t, attemptNo, backoff),
           emits |-> << <<"onBreak", "failure">>, <<"onStateChange", "Open">> >>]

\* close() that emits on stateChangeEmitter before resetEmitter.
closeStateChangeFirst(inner) ==
  IF inner.value = "HalfOpen"
  THEN [inner |-> ClosedState,
        emits |-> << <<"onStateChange", "Closed">>, <<"onReset", "">> >>]
  ELSE [inner |-> inner, emits |-> <<>>]

\* close() that swaps the state without emitting on resetEmitter.
closeNoReset(inner) ==
  IF inner.value = "HalfOpen"
  THEN [inner |-> ClosedState, emits |-> << <<"onStateChange", "Closed">> >>]
  ELSE [inner |-> inner, emits |-> <<>>]

\* close()
close(inner) ==
  IF inner.value = "HalfOpen"
  THEN [inner |-> ClosedState,
        emits |-> << <<"onReset", "">>, <<"onStateChange", "Closed">> >>]
  ELSE [inner |-> inner, emits |-> <<>>]

\* The open window measured against the factory instead of the current step.
StillOpenFactory(inner, t) == t - inner.openedAt < halfOpenAfterBackoffFactory

\* case CircuitState.Open: Date.now() - state.openedAt < state.backoff.duration
StillOpen(inner, t) == t - inner.openedAt < inner.backoff

\* A switch whose Isolated case falls into the Closed case.
RouteIsolatedInvokes(inner, t) ==
  CASE inner.value = "Closed" \/ inner.value = "Isolated" -> "invoke"
    [] inner.value = "HalfOpen" -> "await"
    [] inner.value = "Open" /\ StillOpen(inner, t) -> "broken"
    [] inner.value = "Open" /\ ~StillOpen(inner, t) -> "probe"

\* A switch whose HalfOpen case falls into the Closed case.
RouteNoDedupe(inner, t) ==
  CASE inner.value = "Closed" \/ inner.value = "HalfOpen" -> "invoke"
    [] inner.value = "Open" /\ StillOpen(inner, t) -> "broken"
    [] inner.value = "Open" /\ ~StillOpen(inner, t) -> "probe"
    [] inner.value = "Isolated" -> "isolated"

\* switch (state.value) of execute(): which case an entry at time t takes.
Route(inner, t) ==
  CASE inner.value = "Closed" -> "invoke"
    [] inner.value = "HalfOpen" -> "await"
    [] inner.value = "Open" /\ StillOpen(inner, t) -> "broken"
    [] inner.value = "Open" /\ ~StillOpen(inner, t) -> "probe"
    [] inner.value = "Isolated" -> "isolated"

\* The cancellation check without its signal.aborted conjunct.
CancelCheckNoSignal(inner, ab) == inner.value = "Closed"

\* if (this.state === CircuitState.Closed && signal.aborted)
CancelCheck(inner, ab) == inner.value = "Closed" /\ ab

\* An errorFilter applied as if it accepted every thrown error.
HandledAll(o) == o = "error" \/ o = "unhandled"

\* ExecuteWrapper.invoke: a throw is returned as { error } when errorFilter
\* accepts it and rethrown otherwise.
Handled(o) == o = "error"

----------------------------------------------------------------------------
Init ==
  /\ innerState = ClosedState
  /\ innerLastFailure = NoFailure
  /\ count = 0
  /\ now = 0
  /\ pc = [c \in Calls |-> "idle"]
  /\ waitOn = [c \in Calls |-> NoCall]
  /\ result = [c \in Calls |-> NoResult]
  /\ invoked = [c \in Calls |-> 0]
  /\ signal = [c \in Calls |-> "none"]
  /\ aborted = [c \in Calls |-> FALSE]
  /\ waited = [c \in Calls |-> FALSE]
  /\ live = [h \in Handles |-> FALSE]
  /\ emitted = <<>>
  /\ active = 0
  /\ queue = <<>>
  /\ where = [j \in Jobs |-> "idle"]
  /\ outcome = [j \in Jobs |-> NoOutcome]
  /\ runs = [j \in Jobs |-> 0]
  /\ cancelRequested = [j \in Jobs |-> FALSE]
  /\ waitingOrder = <<>>
  /\ rejectEmitted = FALSE
  /\ optionsBackoff = NoBackoff
  /\ rpc = [r \in Runs |-> "idle"]
  /\ retries = [r \in Runs |-> 0]
  /\ step = [r \in Runs |-> NoStep]
  /\ calls = [r \in Runs |-> 0]
  /\ cancellation = [r \in Runs |-> FALSE]
  /\ giveUps = [r \in Runs |-> <<>>]
  /\ onRetrys = [r \in Runs |-> <<>>]
  /\ settled = [r \in Runs |-> NoReason]
  /\ consCount = 0
  /\ consLog = <<>>
  /\ consLast = NoCallYet
  /\ countBreaker = NoCountBreaker
  /\ window = <<>>
  /\ countLast = NoCountCall
  /\ backoffFactory = NoBackoffFactory
  /\ backoffA = NoStep
  /\ backoffB = NoStep
  /\ yielded = <<>>
  /\ stopped = FALSE
  /\ sampling = NoSamplingBreaker
  /\ samplingNow = 0
  /\ samplingLog = NoSamples
  /\ samplingLast = NoSamplingCall

\* A settled activation: its promise has been handed to its caller and to
\* the activations that awaited it, nothing of the program refers to it.
Gone(c) == pc[c] = "done"

\* The slots of f with those of the activations in gone released.
Sweep(f, gone, init) == [c \in Calls |-> IF c \in gone THEN init ELSE f[c]]

\* Nothing happens to the running activations.
CallsStay ==
  LET gone == {c \in Calls : Gone(c)}
  IN /\ pc' = Sweep(pc, gone, "idle")
     /\ waitOn' = Sweep(waitOn, gone, NoCall)
     /\ result' = Sweep(result, gone, NoResult)
     /\ invoked' = Sweep(invoked, gone, 0)
     /\ signal' = Sweep(signal, gone, "none")
     /\ aborted' = Sweep(aborted, gone, FALSE)
     /\ waited' = Sweep(waited, gone, FALSE)
     /\ UNCHANGED notBreaker

\* The activation in slot c moves to position p with settlement r, having
\* called fn inv times and running with signal sig; ab is signal.aborted of
\* that signal, wtd tells whether it went through the HalfOpen case and t is
\* the state.test it awaits.  When it settles, the activations that await its
\* promise find it settled.
CallMoves(c, p, r, inv, sig, ab, wtd, t) ==
  LET gone == {d \in Calls : Gone(d)}
  IN /\ pc' = [Sweep(pc, gone, "idle") EXCEPT ![c] = p]
     /\ waitOn' = [d \in Calls |->
                     IF d = c THEN t
                     ELSE IF p = "done" /\ waitOn[d] = c THEN SettledTest
                     ELSE Sweep(waitOn, gone, NoCall)[d]]
     /\ result' = [Sweep(result, gone, NoResult) EXCEPT ![c] = r]
     /\ invoked' = [Sweep(invoked, gone, 0) EXCEPT ![c] = inv]
     /\ signal' = [Sweep(signal, gone, "none") EXCEPT ![c] = sig]
     /\ aborted' = [Sweep(aborted, gone, FALSE) EXCEPT ![c] = ab]
     /\ waited' = [Sweep(waited, gone, FALSE) EXCEPT ![c] = wtd]
     /\ UNCHANGED notBreaker

\* The switch of execute() on the state it reads, for the activation in slot
\* c.  sig is the signal argument of this entry, inv the number of calls of
\* fn made so far, wtd whether the entry is the recursion of the HalfOpen
\* case.  A caller's signal that has fired stays so when the recursion awaits
\* again.
Dispatch(c, sig, inv, wtd) ==
  /\ UNCHANGED <<innerLastFailure, count, now, live>>
  /\ LET ab == wtd /\ aborted[c]
     IN CASE Route(innerState, now) = "invoke" ->
             \* await this.executor.invoke(fn, { signal })
             /\ CallMoves(c, "closed", NoResult, inv + 1, sig, FALSE, wtd, NoCall)
             /\ emitted' = <<>>
             /\ UNCHANGED innerState
          [] Route(innerState, now) = "await" ->
             \* await state.test.catch(() => undefined)
             /\ CallMoves(c, "waiting", NoResult, inv, sig, ab, TRUE,
                          innerState.test)
             /\ emitted' = <<>>
             /\ UNCHANGED innerState
          [] Route(innerState, now) = "broken" ->
             \* throw new BrokenCircuitError()
             /\ CallMoves(c, "done",
                          [kind |-> "BrokenCircuitError", src |-> NoCall],
                          inv, sig, FALSE, wtd, NoCall)
             /\ emitted' = <<>>
             /\ UNCHANGED innerState
          [] Route(innerState, now) = "probe" ->
             \* const test = this.halfOpen(fn, signal); this.innerState = ...
             /\ CallMoves(c, "probe", NoResult, inv + 1, sig, FALSE, wtd, NoCall)
             /\ innerState' = HalfOpenState(c, innerState.attemptNo + 1,
                                            innerState.backoff)
             /\ emitted' = << <<"onHalfOpen", "">>,
                              <<"onStateChange", "HalfOpen">> >>
          [] Route(innerState, now) = "isolated" ->
             \* throw new IsolatedCircuitError()
             /\ CallMoves(c, "done",
                          [kind |-> "IsolatedCircuitError", src |-> NoCall],
                          inv, sig, FALSE, wtd, NoCall)
             /\ emitted' = <<>>
             /\ UNCHANGED innerState

\* A slot can hold a new activation when it is free or its activation is gone.
Reusable(c) == pc[c] = "idle" \/ Gone(c)

\* execute(fn, signal) called by a user: the lowest reusable slot is taken.
Execute(c) ==
  /\ Reusable(c)
  /\ \A d \in Calls : Reusable(d) => c <= d
  /\ Dispatch(c, "caller", 0, FALSE)

\* The HalfOpen case continuing without awaiting state.test.
TestSettledNoAwait(w) == TRUE

\* await state.test.catch(() => undefined) returns once the test has settled.
TestSettled(w) == waitOn[w] = SettledTest

\* signal.aborted as the frame of activation w reads it: of the caller's
\* signal in the frame the caller entered, of neverAbortedSignal in the
\* recursion.
SignalAborted(w) == signal[w] = "caller" /\ aborted[w]

\* The continuation of the HalfOpen case once the awaited test has settled:
\* if (this.state === Closed && signal.aborted) throw new TaskCancelledError();
\* return this.execute(fn)  -- the recursion is entered without the signal.
Resume(w) ==
  /\ pc[w] = "waiting"
  /\ TestSettled(w)
  /\ IF CancelCheck(innerState, SignalAborted(w))
     THEN /\ CallMoves(w, "done",
                       [kind |-> "TaskCancelledError", src |-> NoCall],
                       invoked[w], signal[w], aborted[w], TRUE, NoCall)
          /\ emitted' = <<>>
          /\ UNCHANGED <<innerState, innerLastFailure, count, now, live>>
     ELSE Dispatch(w, "never", invoked[w], TRUE)

\* What returnOrThrow(result) makes of the outcome o of call c.
OwnResult(c, o) == [kind |-> o, src |-> c]

\* The continuation of the Closed case after executor.invoke settled with
\* outcome o.  An unhandled error leaves invoke by its throw and skips the rest.
SettleClosed(c, o) ==
  /\ pc[c] = "closed"
  /\ CallMoves(c, "done", OwnResult(c, o), invoked[c], signal[c], aborted[c],
               waited[c], NoCall)
  /\ UNCHANGED <<now, live>>
  /\ CASE o = "success" ->
          /\ count' = BreakerSuccess(count)
          /\ emitted' = <<>>
          /\ UNCHANGED <<innerState, innerLastFailure>>
       [] o # "success" /\ Handled(o) ->
          /\ count < MaxCount
          /\ innerLastFailure' = FailureReason(c)
          /\ LET f == BreakerFailure(count)
                 o1 == IF f.open THEN open(innerState, now)
                       ELSE [inner |-> innerState, emits |-> <<>>]
             IN /\ count' = f.count
                /\ innerState' = o1.inner
                /\ emitted' = o1.emits
       [] o # "success" /\ ~Handled(o) ->
          /\ emitted' = <<>>
          /\ UNCHANGED <<innerState, innerLastFailure, count>>

\* halfOpen(): the continuation after executor.invoke settled with outcome o.
\* A handled error is rethrown by returnOrThrow inside the try block, so the
\* catch block runs close() after open() for it as well.
SettleProbe(c, o) ==
  /\ pc[c] = "probe"
  /\ CallMoves(c, "done", OwnResult(c, o), invoked[c], signal[c], aborted[c],
               waited[c], NoCall)
  /\ UNCHANGED <<now, live>>
  /\ CASE o = "success" ->
          /\ count' = BreakerSuccess(count)
          /\ LET k == close(innerState)
             IN /\ innerState' = k.inner
                /\ emitted' = k.emits
          /\ UNCHANGED innerLastFailure
       [] o # "success" /\ Handled(o) ->
          /\ count < MaxCount
          /\ innerLastFailure' = FailureReason(c)
          /\ count' = BreakerFailure(count).count
          /\ LET o1 == open(innerState, now)
                 k == close(o1.inner)
             IN /\ innerState' = k.inner
                /\ emitted' = o1.emits \o k.emits
       [] o # "success" /\ ~Handled(o) ->
          /\ LET k == close(innerState)
             IN /\ innerState' = k.inner
                /\ emitted' = k.emits
          /\ UNCHANGED <<innerLastFailure, count>>

\* The caller's AbortSignal fires while the activation awaits a test.
Abort(c) ==
  /\ pc[c] = "waiting"
  /\ ~aborted[c]
  /\ CallMoves(c, pc[c], result[c], invoked[c], signal[c], TRUE, waited[c],
               waitOn[c])
  /\ emitted' = <<>>
  /\ UNCHANGED <<innerState, innerLastFailure, count, now, live>>

\* isolate(): the new handle takes the lowest slot that holds no live handle.
Isolate(h) ==
  /\ ~live[h]
  /\ \A g \in Handles : ~live[g] => h <= g
  /\ live' = [live EXCEPT ![h] = TRUE]
  /\ IF state # "Isolated"
     THEN /\ innerState' = IsolatedState(0 + 1)
          /\ emitted' = << <<"onBreak", "isolated">>,
                           <<"onStateChange", "Isolated">> >>
     ELSE /\ innerState' = IsolatedState(innerState.counters + 1)
          /\ emitted' = <<>>
  /\ CallsStay
  /\ UNCHANGED <<innerLastFailure, count, now>>

\* handle.dispose() of the live handle in slot h
Dispose(h) ==
  /\ live[h]
  /\ live' = [live EXCEPT ![h] = FALSE]
  /\ IF state = "Isolated"
     THEN IF innerState.counters - 1 = 0
          THEN /\ innerState' = ClosedState
               /\ emitted' = << <<"onReset", "">>,
                                <<"onStateChange", "Closed">> >>
          ELSE /\ innerState' = IsolatedState(innerState.counters - 1)
               /\ emitted' = <<>>
     ELSE /\ emitted' = <<>>
          /\ UNCHANGED innerState
  /\ CallsStay
  /\ UNCHANGED <<innerLastFailure, count, now>>

\* dispose() without its disposed flag: a second call counts again.
DisposeAgainCounts(h) ==
  /\ ~live[h]
  /\ \E g \in Handles : g > h /\ live[g]
  /\ IF state = "Isolated"
     THEN IF innerState.counters - 1 = 0
          THEN /\ innerState' = ClosedState
               /\ emitted' = << <<"onReset", "">>,
                                <<"onStateChange", "Closed">> >>
          ELSE /\ innerState' = IsolatedState(innerState.counters - 1)
               /\ emitted' = <<>>
     ELSE /\ emitted' = <<>>
          /\ UNCHANGED innerState
  /\ CallsStay
  /\ UNCHANGED <<innerLastFailure, count, now, live>>

\* handle.dispose() of a handle disposed before: if (disposed) return.  The
\* slots are issued lowest first, so a free slot below a live one has held a
\* handle.
DisposeAgain(h) ==
  /\ ~live[h]
  /\ \E g \in Handles : g > h /\ live[g]
  /\ emitted' = <<>>
  /\ CallsStay
  /\ UNCHANGED <<innerState, innerLastFailure, count, now, live>>

\* The clock advances by one unit.
Tick ==
  /\ now < MaxTime
  /\ now' = now + 1
  /\ emitted' = <<>>
  /\ CallsStay
  /\ UNCHANGED <<innerState, innerLastFailure, count, live>>

Next ==
  \/ \E c \in Calls : Execute(c)
  \/ \E w \in Calls : Resume(w)
  \/ \E c \in Calls : \E o \in Outcomes : SettleClosed(c, o)
  \/ \E c \in Calls : \E o \in Outcomes : SettleProbe(c, o)
  \/ \E c \in Calls : Abort(c)
  \/ \E h \in Handles : Isolate(h)
  \/ \E h \in Handles : Dispose(h)
  \/ \E h \in Handles : DisposeAgain(h)
  \/ Tick

Spec == Init /\ [][Next]_allVars

TypeOK ==
  /\ state \in {"Closed", "Open", "HalfOpen", "Isolated"}
  /\ count \in 0..MaxCount
  /\ now \in 0..MaxTime
  /\ \A c \in Calls : pc[c] \in {"idle", "closed", "probe", "waiting", "done"}
----------------------------------------------------------------------------
(***************************************************************************)
(* BulkheadPolicy.  A job is running (its fn was called and has not        *)
(* settled), queued (an item of queue), or dequeued: dequeue() has shifted *)
(* its item and scheduled `Promise.resolve().then(() => execute(item.fn))`,*)
(* which has not run yet.  The continuation after `await fn()` (the        *)
(* finally block with dequeue()) is one action; the scheduled re-entry is  *)
(* another, so that the calls a user makes in between are seen.            *)
(***************************************************************************)

\* What fn of a job may do: resolve or reject.
JobOutcomes == {"success", "error"}

\* the settlement of fn, handed through by `return await fn()`
OwnOutcome(j, o) == [kind |-> o, src |-> j, limits |-> <<>>]
\* new BulkheadRejectedError(this.capacity, this.queueCapacity)
BulkheadRejectedError ==
  [kind |-> "BulkheadRejectedError", src |-> NoCall,
   limits |-> <<capacity, queueCapacity>>]
\* new TaskCancelledError()
TaskCancelledError == [kind |-> "TaskCancelledError", src |-> NoCall, limits |-> <<>>]

\* get executionSlots()
executionSlots == capacity - active
\* get queueSlots()
queueSlots == queueCapacity - Len(queue)

\* The admission test admitting one call too many.
CanRunOffByOne == active <= capacity

\* if (this.active < this.capacity)
CanRun == active < capacity

\* if (this.queue.length < this.queueCapacity)
CanQueue == Len(queue) < queueCapacity

\* A settled job: its promise has been handed to its caller.
JobGone(j) == where[j] = "done"

\* The slots of f with those of the settled jobs released.
JobSweep(f, init) == [j \in Jobs |-> IF JobGone(j) THEN init ELSE f[j]]

\* s without its element j.
Without(s, j) == SelectSeq(s, LAMBDA x : x # j)

\* Job j moves to position p with settlement r, fn called n times.
JobMoves(j, p, r, n) ==
  /\ where' = [JobSweep(where, "idle") EXCEPT ![j] = p]
  /\ outcome' = [JobSweep(outcome, NoOutcome) EXCEPT ![j] = r]
  /\ runs' = [JobSweep(runs, 0) EXCEPT ![j] = n]

\* The body of execute(fn) for job j, whose fn has been called n times.
Admit(j, n) ==
  IF CanRun
  THEN \* this.active++; ... await fn()
       /\ active' = active + 1
       /\ JobMoves(j, "running", NoOutcome, n + 1)
       /\ waitingOrder' = Without(waitingOrder, j)
       /\ rejectEmitted' = FALSE
       /\ UNCHANGED queue
  ELSE IF CanQueue
  THEN \* this.queue.push({ fn, resolve, reject }); return promise;
       /\ queue' = Append(queue, j)
       /\ JobMoves(j, "queued", NoOutcome, n)
       /\ waitingOrder' = IF \E i \in 1..Len(waitingOrder) : waitingOrder[i] = j
                          THEN waitingOrder
                          ELSE Append(waitingOrder, j)
       /\ rejectEmitted' = FALSE
       /\ UNCHANGED active
  ELSE \* this.onRejectEmitter.emit(); throw new BulkheadRejectedError(...)
       /\ JobMoves(j, "done", BulkheadRejectedError, n)
       /\ waitingOrder' = Without(waitingOrder, j)
       /\ rejectEmitted' = TRUE
       /\ UNCHANGED <<active, queue>>

\* A user's call takes the lowest free job.
FreeJob(j) ==
  /\ where[j] = "idle" \/ JobGone(j)
  /\ \A i \in Jobs : i < j => ~(where[i] = "idle" \/ JobGone(i))

\* bulkhead.execute(fn)
BExecute(j) ==
  /\ FreeJob(j)
  /\ Admit(j, 0)
  /\ cancelRequested' = [JobSweep(cancelRequested, FALSE) EXCEPT ![j] = FALSE]
  /\ UNCHANGED notBulkhead

\* dequeue(): const item = this.queue.shift(); item is NoCall when there is none.
dequeue(q) ==
  IF q = <<>> THEN [queue |-> q, item |-> NoCall]
  ELSE [queue |-> Tail(q), item |-> Head(q)]

\* A continuation that gives the slot back only when fn has resolved.
BSettleLeaksOnError(j, o) ==
  /\ where[j] = "running"
  /\ active' = IF o = "success" THEN active - 1 ELSE active
  /\ LET d == dequeue(queue)
     IN /\ queue' = d.queue
        /\ where' = [i \in Jobs |-> IF i = j THEN "done"
                                    ELSE IF i = d.item THEN "dequeued"
                                    ELSE JobSweep(where, "idle")[i]]
  /\ outcome' = [JobSweep(outcome, NoOutcome) EXCEPT ![j] = OwnOutcome(j, o)]
  /\ runs' = JobSweep(runs, 0)
  /\ cancelRequested' = JobSweep(cancelRequested, FALSE)
  /\ rejectEmitted' = FALSE
  /\ UNCHANGED <<waitingOrder, notBulkhead>>

\* The continuation of `await fn()` of a running job whose fn settled with o:
\* finally { this.active--; this.dequeue(); }, then the promise settles.
BSettle(j, o) ==
  /\ where[j] = "running"
  /\ active' = active - 1
  /\ LET d == dequeue(queue)
     IN /\ queue' = d.queue
        /\ where' = [i \in Jobs |-> IF i = j THEN "done"
                                    ELSE IF i = d.item THEN "dequeued"
                                    ELSE JobSweep(where, "idle")[i]]
  /\ outcome' = [JobSweep(outcome, NoOutcome) EXCEPT ![j] = OwnOutcome(j, o)]
  /\ runs' = JobSweep(runs, 0)
  /\ cancelRequested' = JobSweep(cancelRequested, FALSE)
  /\ rejectEmitted' = FALSE
  /\ UNCHANGED <<waitingOrder, notBulkhead>>

\* The microtask dequeue() scheduled: () => this.execute(item.fn)
BReenter(j) ==
  /\ where[j] = "dequeued"
  /\ Admit(j, runs[j])
  /\ cancelRequested' = JobSweep(cancelRequested, FALSE)
  /\ UNCHANGED notBulkhead

NextBulkhead ==
  \/ \E j \in Jobs : BExecute(j)
  \/ \E j \in Jobs : \E o \in JobOutcomes : BSettle(j, o)
  \/ \E j \in Jobs : BReenter(j)

SpecBulkhead == Init /\ [][NextBulkhead]_allVars

\* Every fn settles, and every scheduled microtask runs.
SpecBulkheadFair ==
  /\ SpecBulkhead
  /\ \A j \in Jobs : WF_allVars(\E o \in JobOutcomes : BSettle(j, o))
  /\ \A j \in Jobs : WF_allVars(BReenter(j))

\* The check of the signal given with the call, made when the call is
\* submitted and when its item is dequeued: it fails the call with
\* TaskCancelledError when the signal is requested.
SignalCheck(requested) == requested

\* The call of job j, whose fn has been called n times, fails the signal check.
Cancelled(j, n) ==
  /\ JobMoves(j, "done", TaskCancelledError, n)
  /\ waitingOrder' = Without(waitingOrder, j)
  /\ rejectEmitted' = FALSE
  /\ UNCHANGED <<active, queue>>

\* bulkhead.execute(fn, signal); requested is the state of the signal.
BExecuteSignal(j, requested) ==
  /\ FreeJob(j)
  /\ IF SignalCheck(requested) THEN Cancelled(j, 0) ELSE Admit(j, 0)
  /\ cancelRequested' = [JobSweep(cancelRequested, FALSE) EXCEPT ![j] = requested]
  /\ UNCHANGED notBulkhead

\* The re-entry of a dequeued item that skips the signal check.
BReenterSignalUnchecked(j) ==
  /\ where[j] = "dequeued"
  /\ Admit(j, runs[j])
  /\ cancelRequested' = JobSweep(cancelRequested, FALSE)
  /\ UNCHANGED notBulkhead

\* The microtask dequeue() scheduled, for an item with a signal.
BReenterSignal(j) ==
  /\ where[j] = "dequeued"
  /\ IF SignalCheck(cancelRequested[j]) THEN Cancelled(j, runs[j]) ELSE Admit(j, runs[j])
  /\ cancelRequested' = JobSweep(cancelRequested, FALSE)
  /\ UNCHANGED notBulkhead

\* The caller of a waiting job requests cancellation.
BCancel(j) ==
  /\ where[j] \in {"queued", "dequeued"}
  /\ ~cancelRequested[j]
  /\ cancelRequested' = [JobSweep(cancelRequested, FALSE) EXCEPT ![j] = TRUE]
  /\ where' = JobSweep(where, "idle")
  /\ outcome' = JobSweep(outcome, NoOutcome)
  /\ runs' = JobSweep(runs, 0)
  /\ rejectEmitted' = FALSE
  /\ UNCHANGED <<active, queue, waitingOrder, notBulkhead>>

NextBulkheadSignal ==
  \/ \E j \in Jobs : \E requested \in BOOLEAN : BExecuteSignal(j, requested)
  \/ \E j \in Jobs : \E o \in JobOutcomes : BSettle(j, o)
  \/ \E j \in Jobs : BReenterSignal(j)
  \/ \E j \in Jobs : BCancel(j)

SpecBulkheadSignal == Init /\ [][NextBulkheadSignal]_allVars

BulkheadTypeOK ==
  /\ active \in 0..capacity
  /\ \A j \in Jobs : where[j] \in {"idle", "running", "queued", "dequeued", "done"}
  /\ \A j \in Jobs : runs[j] \in 0..1
----------------------------------------------------------------------------
(***************************************************************************)
(* RetryPolicy.  A run of execute() is invoking (executor.invoke(fn) is    *)
(* pending) or delaying (it awaits delayPromise).  An action is the        *)
(* synchronous run of the loop between two awaits.  What fn does at each   *)
(* invocation is chosen by the environment.                                *)
(***************************************************************************)

\* What an invocation may end in: a value the policy accepts, a thrown error
\* it handles, a returned value it handles, a thrown error it does not handle.
RetryOutcomes == {"success", "error", "value", "unhandled"}

\* this.options.backoff || new ConstantBackoff(0, 1); attempts(count) sets
\* new ConstantBackoff(1, count).
Factory ==
  IF optionsBackoff = NoBackoff
  THEN [interval |-> 0, limit |-> 1]
  ELSE [interval |-> 1, limit |-> optionsBackoff]

\* next() of a factory that hands every run the one chain it keeps, where
\* the run before left it.
FactoryNextShared ==
  IF \E r \in Runs : step[r] # NoStep
  THEN CHOOSE s \in {step[r] : r \in Runs} : \A r \in Runs : step[r] <= s
  ELSE 0

\* ConstantBackoff.next(): instance(this.interval, this.limit), index = 0
FactoryNext == 0

\* next() of the instance of a ConstantBackoff with a limit
StepNext(limit, index) == IF index >= limit - 1 THEN NoStep ELSE index + 1

\* A settled run: its promise has been handed to its caller.
RunGone(r) == rpc[r] = "done"

\* The slots of f with those of the settled runs released.
RunSweep(f, init) == [r \in Runs |-> IF RunGone(r) THEN init ELSE f[r]]

\* Run r moves to position p with loop variable n, backoff step st, fn called
\* c times, the emissions gu and ors and the settlement res.
RunMoves(r, p, n, st, c, gu, ors, res) ==
  /\ rpc' = [RunSweep(rpc, "idle") EXCEPT ![r] = p]
  /\ retries' = [RunSweep(retries, 0) EXCEPT ![r] = n]
  /\ step' = [RunSweep(step, NoStep) EXCEPT ![r] = st]
  /\ calls' = [RunSweep(calls, 0) EXCEPT ![r] = c]
  /\ giveUps' = [RunSweep(giveUps, <<>>) EXCEPT ![r] = gu]
  /\ onRetrys' = [RunSweep(onRetrys, <<>>) EXCEPT ![r] = ors]
  /\ settled' = [RunSweep(settled, NoReason) EXCEPT ![r] = res]

\* Policy.handleAll().retry().attempts(count), before the policy is used.
Attempts(n) ==
  /\ optionsBackoff = NoBackoff
  /\ \A r \in Runs : rpc[r] = "idle"
  /\ optionsBackoff' = n
  /\ UNCHANGED <<rpc, retries, step, calls, cancellation, giveUps, onRetrys,
                 settled, notRetry>>

\* A user's call takes the lowest free run.
FreeRun(r) ==
  /\ rpc[r] = "idle" \/ RunGone(r)
  /\ \A i \in Runs : i < r => ~(rpc[i] = "idle" \/ RunGone(i))

\* retry.execute(fn): retries = 0 and the first executor.invoke(fn, ...)
RExecute(r) ==
  /\ FreeRun(r)
  /\ RunMoves(r, "invoking", 0, NoStep, 1, <<>>, <<>>, NoReason)
  /\ cancellation' = [RunSweep(cancellation, FALSE) EXCEPT ![r] = FALSE]
  /\ UNCHANGED <<optionsBackoff, notRetry>>

\* ExecuteWrapper.invoke() returns { error } or { value }: the errorFilter or
\* the resultFilter accepted what fn threw or returned.
HandledFailureAlways(o) == o # "success"

HandledFailure(o) == o \in {"error", "value"}

\* The loop of execute() goes on to a delay: cancellation is not requested
\* and there is a backoff step.
RetriesWhenCancelled(cancelled, next) == next # NoStep

Retries(cancelled, next) == ~cancelled /\ next # NoStep

\* The continuation after `await this.executor.invoke(...)` ended in o;
\* requested is what cancellationToken.isCancellationRequested answers then:
\* fn or anybody else may have cancelled the token since the run began.
RSettle(r, o, requested) ==
  /\ rpc[r] = "invoking"
  /\ LET reason == [kind |-> o, attempt |-> retries[r]]
         next == IF requested THEN step[r]
                 ELSE IF retries[r] = 0 THEN FactoryNext
                 ELSE IF step[r] # NoStep THEN StepNext(Factory.limit, step[r])
                 ELSE step[r]
     IN CASE o = "success" ->
             \* return result.success
             RunMoves(r, "done", retries[r], step[r], calls[r], giveUps[r],
                      onRetrys[r], reason)
          [] o # "success" /\ ~HandledFailure(o) ->
             \* invoke() rethrows the error
             RunMoves(r, "done", retries[r], step[r], calls[r], giveUps[r],
                      onRetrys[r], reason)
          [] HandledFailure(o) /\ Retries(requested, next) ->
             \* this.onRetryEmitter.emit({ ...result, delay }); await delayPromise
             RunMoves(r, "delaying", retries[r], next, calls[r], giveUps[r],
                      Append(onRetrys[r],
                             [kind |-> o, delay |-> Factory.interval]),
                      NoReason)
          [] HandledFailure(o) /\ ~Retries(requested, next) ->
             \* this.onGiveUpEmitter.emit(result); throw or return
             RunMoves(r, "done", retries[r], next, calls[r],
                      Append(giveUps[r], reason), onRetrys[r], reason)
  /\ cancellation' = [RunSweep(cancellation, FALSE) EXCEPT ![r] = requested]
  /\ UNCHANGED <<optionsBackoff, notRetry>>

\* The delay is over: continue; retries++; the next executor.invoke(fn, ...)
RDelayDone(r) ==
  /\ rpc[r] = "delaying"
  /\ RunMoves(r, "invoking", retries[r] + 1, step[r], calls[r] + 1, giveUps[r],
              onRetrys[r], NoReason)
  /\ cancellation' = RunSweep(cancellation, FALSE)
  /\ UNCHANGED <<optionsBackoff, notRetry>>

NextRetry ==
  \/ \E n \in 0..MaxLimit : Attempts(n)
  \/ \E r \in Runs : RExecute(r)
  \/ \E r \in Runs : \E o \in RetryOutcomes : \E requested \in BOOLEAN :
       RSettle(r, o, requested)
  \/ \E r \in Runs : RDelayDone(r)

SpecRetry == Init /\ [][NextRetry]_allVars

RetryTypeOK ==
  /\ optionsBackoff \in {NoBackoff} \cup 0..MaxLimit
  /\ \A r \in Runs : rpc[r] \in {"idle", "invoking", "delaying", "done"}
  /\ \A r \in Runs : calls[r] \in 0..(MaxLimit + 2)
----------------------------------------------------------------------------
\* ConsecutiveBreaker(Threshold), called directly.

\* breaker.success(state)
ConsSuccess ==
  /\ Len(consLog) < MaxLog
  /\ consCount' = BreakerSuccess(consCount)
  /\ consLog' = Append(consLog, "success")
  /\ consLast' = [op |-> "success", returned |-> FALSE]
  /\ UNCHANGED <<policyVars, countVars, backoffVars, samplingVars>>

\* breaker.failure(state)
ConsFailure ==
  /\ Len(consLog) < MaxLog
  /\ consCount' = BreakerFailure(consCount).count
  /\ consLog' = Append(consLog, "failure")
  /\ consLast' = [op |-> "failure", returned |-> BreakerFailure(consCount).open]
  /\ UNCHANGED <<policyVars, countVars, backoffVars, samplingVars>>

NextConsecutive == ConsSuccess \/ ConsFailure

SpecConsecutive == Init /\ [][NextConsecutive]_allVars

----------------------------------------------------------------------------
\* CountBreaker, called directly. A sample is "true" (success), "false"
\* (failure) or "null" (none yet); a threshold is a fraction <<num, den>>.

\* Thresholds in (0, 1) that a double holds exactly.
Thresholds == {<<1, 4>>, <<1, 2>>, <<3, 4>>}

\* The states the circuit breaker hands to success() and failure().
CircuitStates == {"Closed", "HalfOpen"}

\* new CountBreaker({ threshold, size, minimumNumberOfCalls })
NewCountBreaker(th, size, min) ==
  [threshold |-> th, minimumNumberOfCalls |-> min,
   samples |-> [i \in 1..size |-> "null"],
   successes |-> 0, failures |-> 0, currentSample |-> 0]

\* CountBreaker.reset()
reset(b) ==
  [b EXCEPT !.samples = [i \in DOMAIN b.samples |-> "null"],
            !.successes = 0, !.failures = 0]

\* sample() that leaves the totals alone when it overwrites a sample.
sampleKeepsTotals(b, success) ==
  [b EXCEPT !.samples[b.currentSample + 1] = IF success THEN "true" ELSE "false",
            !.successes = IF success THEN @ + 1 ELSE @,
            !.failures = IF success THEN @ ELSE @ + 1,
            !.currentSample = (@ + 1) % Len(b.samples)]

\* CountBreaker.sample(success)
sample(b, success) ==
  LET current == b.samples[b.currentSample + 1]
      dropped == [b EXCEPT !.successes = IF current = "true" THEN @ - 1 ELSE @,
                           !.failures = IF current = "false" THEN @ - 1 ELSE @]
  IN [dropped EXCEPT
        !.samples[b.currentSample + 1] = IF success THEN "true" ELSE "false",
        !.successes = IF success THEN @ + 1 ELSE @,
        !.failures = IF success THEN @ ELSE @ + 1,
        !.currentSample = (@ + 1) % Len(b.samples)]

\* success() that keeps the samples when the probe succeeds.
successKeepsSamples(b, st) == sample(b, TRUE)

\* CountBreaker.success(state): the breaker after the call
success(b, st) == sample(IF st = "HalfOpen" THEN reset(b) ELSE b, TRUE)

\* failure(state) that opens as soon as the failures reach the threshold.
failureAtThreshold(b, st) ==
  LET after == sample(b, FALSE)
      total == after.successes + after.failures
  IN [breaker |-> after,
      returned |->
        IF st # "Closed" THEN TRUE
        ELSE IF total < after.minimumNumberOfCalls THEN FALSE
        ELSE after.failures * after.threshold[2] >= after.threshold[1] * total]

\* CountBreaker.failure(state): the breaker after the call and the answer
failure(b, st) ==
  LET after == sample(b, FALSE)
      total == after.successes + after.failures
  IN [breaker |-> after,
      returned |->
        IF st # "Closed" THEN TRUE
        ELSE IF total < after.minimumNumberOfCalls THEN FALSE
        ELSE after.failures * after.threshold[2] > after.threshold[1] * total]

\* The last samples of w and s, as many as the window of size n holds.
Slide(w, s, n) ==
  LET all == Append(w, s)
  IN IF Len(all) > n THEN Tail(all) ELSE all

\* The constructor, with options it accepts.
CountNew(th, size, min) ==
  /\ countBreaker = NoCountBreaker
  /\ countBreaker' = NewCountBreaker(th, size, min)
  /\ UNCHANGED <<window, countLast, policyVars, consecutiveVars, backoffVars, samplingVars>>

\* breaker.success(st)
CountSuccess(st) ==
  /\ countBreaker # NoCountBreaker
  /\ countBreaker' = success(countBreaker, st)
  /\ window' = IF st = "HalfOpen" THEN <<"true">>
               ELSE Slide(window, "true", Len(countBreaker.samples))
  /\ countLast' = [op |-> "success", state |-> st, returned |-> FALSE]
  /\ UNCHANGED <<policyVars, consecutiveVars, backoffVars, samplingVars>>

\* breaker.failure(st)
CountFailure(st) ==
  /\ countBreaker # NoCountBreaker
  /\ countBreaker' = failure(countBreaker, st).breaker
  /\ window' = Slide(window, "false", Len(countBreaker.samples))
  /\ countLast' = [op |-> "failure", state |-> st,
                   returned |-> failure(countBreaker, st).returned]
  /\ UNCHANGED <<policyVars, consecutiveVars, backoffVars, samplingVars>>

NextCount ==
  \/ \E th \in Thresholds : \E size \in 1..MaxSize : \E min \in 1..size :
       CountNew(th, size, min)
  \/ \E st \in CircuitStates : CountSuccess(st)
  \/ \E st \in CircuitStates : CountFailure(st)

SpecCount == Init /\ [][NextCount]_allVars

----------------------------------------------------------------------------
\* Backoffs on their own: ConstantBackoff, IterableBackoff and the
\* CompositeBackoff of two of them. A step of a backoff is the index of its
\* instance, NoStep where next() returned undefined.

\* Durations in milliseconds.
Intervals == {10, 20}

\* new ConstantBackoff(interval, limit)
ConstantBackoff(interval, limit) ==
  [kind |-> "constant", interval |-> interval, limit |-> limit,
   durations |-> <<>>]

\* new IterableBackoff(durations)
IterableBackoff(durations) ==
  [kind |-> "iterable", interval |-> 0, limit |-> NoLimit,
   durations |-> durations]

\* The lists of 1..MaxDurations durations.
DurationLists ==
  UNION {[1..n -> Intervals] : n \in 1..MaxDurations}

Leaves ==
  {ConstantBackoff(i, l) : i \in Intervals, l \in {NoLimit} \cup 0..MaxBackoffLimit}
    \cup {IterableBackoff(d) : d \in DurationLists}

CompositeBiases == {"a", "b", "max", "min"}

\* new CompositeBackoff(bias, backoffA, backoffB)
CompositeBackoff(bias, a, b) == [bias |-> bias, a |-> a, b |-> b]

\* next() of a factory: instance(..., 0) for both kinds
LeafFirst(l) == FactoryNext

\* next() of the instance of an IterableBackoff
IterableNext(durations, index) ==
  IF index < Len(durations) - 1 THEN index + 1 ELSE NoStep

\* next() of an instance
LeafNext(l, index) ==
  IF l.kind = "iterable" THEN IterableNext(l.durations, index)
  ELSE IF l.limit = NoLimit THEN index
  ELSE StepNext(l.limit, index)

\* duration of an instance
LeafDuration(l, index) ==
  IF l.kind = "iterable" THEN l.durations[index + 1] ELSE l.interval

Max(x, y) == IF x >= y THEN x ELSE y

Min(x, y) == IF x <= y THEN x ELSE y

\* The duration of a composite whose 'max' takes the smaller one.
CompositeDurationSwapped(bias, da, db) ==
  CASE bias = "a" -> da
    [] bias = "b" -> db
    [] bias = "max" -> Min(db, da)
    [] bias = "min" -> Max(db, da)

\* get duration() of the instance of a CompositeBackoff
CompositeDuration(bias, da, db) ==
  CASE bias = "a" -> da
    [] bias = "b" -> db
    [] bias = "max" -> Max(db, da)
    [] bias = "min" -> Min(db, da)

\* A composite that goes on while one of its children does.
CompositeContinuesEither(na, nb) == na # NoStep \/ nb # NoStep

\* nextA && nextB && instance(bias, nextA, nextB): there is a next step
CompositeContinues(na, nb) == na # NoStep /\ nb # NoStep

IsComposite(f) == f.bias # "none"

\* The duration of the step <<ia, ib>> of the factory f.
StepDuration(f, ia, ib) ==
  IF IsComposite(f)
  THEN CompositeDuration(f.bias, LeafDuration(f.a, ia), LeafDuration(f.b, ib))
  ELSE LeafDuration(f.a, ia)

\* The chain moves to the step <<na, nb>>, or ends where there is none.
ChainMoves(na, nb) ==
  IF (IF IsComposite(backoffFactory) THEN CompositeContinues(na, nb)
      ELSE na # NoStep)
  THEN /\ backoffA' = na
       /\ backoffB' = nb
       /\ yielded' = Append(yielded, StepDuration(backoffFactory, na, nb))
       /\ stopped' = FALSE
  ELSE /\ backoffA' = NoStep
       /\ backoffB' = NoStep
       /\ yielded' = yielded
       /\ stopped' = TRUE

\* A ConstantBackoff or an IterableBackoff is constructed.
BackoffNewLeaf(l) ==
  /\ backoffFactory = NoBackoffFactory
  /\ backoffFactory' = [bias |-> "none", a |-> l, b |-> NoLeaf]
  /\ UNCHANGED <<backoffA, backoffB, yielded, stopped, policyVars,
                 consecutiveVars, countVars, samplingVars>>

\* A CompositeBackoff is constructed.
BackoffNewComposite(bias, a, b) ==
  /\ backoffFactory = NoBackoffFactory
  /\ backoffFactory' = CompositeBackoff(bias, a, b)
  /\ UNCHANGED <<backoffA, backoffB, yielded, stopped, policyVars,
                 consecutiveVars, countVars, samplingVars>>

\* factory.next(context), the first step of a chain
ChainFirst ==
  /\ backoffFactory # NoBackoffFactory
  /\ yielded = <<>> /\ ~stopped
  /\ ChainMoves(LeafFirst(backoffFactory.a),
                IF IsComposite(backoffFactory)
                THEN LeafFirst(backoffFactory.b) ELSE NoStep)
  /\ UNCHANGED <<backoffFactory, policyVars, consecutiveVars, countVars, samplingVars>>

\* backoff.next(context) on the step held
ChainNext ==
  /\ yielded # <<>> /\ ~stopped
  /\ Len(yielded) < MaxSteps
  /\ ChainMoves(LeafNext(backoffFactory.a, backoffA),
                IF IsComposite(backoffFactory)
                THEN LeafNext(backoffFactory.b, backoffB) ELSE NoStep)
  /\ UNCHANGED <<backoffFactory, policyVars, consecutiveVars, countVars, samplingVars>>

NextBackoff ==
  \/ \E l \in Leaves : BackoffNewLeaf(l)
  \/ \E bias \in CompositeBiases : \E a, b \in Leaves :
       BackoffNewComposite(bias, a, b)
  \/ ChainFirst
  \/ ChainNext

SpecBackoff == Init /\ [][NextBackoff]_allVars

(***************************************************************************)
(* SamplingBreaker (src/breaker/SamplingBreaker.ts): a ring of at least    *)
(* five buckets, each with the time it was started at and the failures    *)
(* and successes pushed into it, and the rolling totals of the ring.      *)
(* Times are in milliseconds. The threshold is a fraction <<n, d>>;       *)
(* minimumRpms is minimumRps / 1000 and is compared in whole numbers.     *)
(***************************************************************************)

\* The sampling durations a breaker is constructed with.
SamplingDurations == {5, 6}

\* The thresholds and minimumRps a SamplingBreaker is constructed with; a
\* minimumRps of 0 stands for the option left out.
SamplingOptions ==
  {[threshold |-> <<1, 4>>, minimumRps |-> 0],
   [threshold |-> <<1, 2>>, minimumRps |-> 400]}

\* Math.max(5, Math.ceil(samplingDuration / 1000))
windowCount(samplingDuration) == Max(5, (samplingDuration + 999) \div 1000)

\* The calls made on a SamplingBreaker since its last reset are bounded by
\* what it takes to wrap the smallest ring: one sample more than it has
\* buckets.
MaxSamples == windowCount(1) + 1

\* Math.round(a / b) of positive integers
Round(a, b) == (2 * a + b) \div (2 * b)

\* new SamplingBreaker({ threshold, duration, minimumRps })
NewSamplingBreaker(th, samplingDuration, minimumRps) ==
  LET n == windowCount(samplingDuration)
      size == Round(samplingDuration, n)
  IN [threshold |-> th, minimumRps |-> minimumRps,
      duration |-> size * n, windowSize |-> size,
      windows |-> [i \in 1..n |-> [startedAt |-> 0, failures |-> 0, successes |-> 0]],
      currentWindow |-> 0, currentFailures |-> 0, currentSuccesses |-> 0]

\* SamplingBreaker.resetWindows()
resetWindows(b) ==
  [b EXCEPT !.currentFailures = 0, !.currentSuccesses = 0,
            !.windows = [i \in DOMAIN b.windows |->
                           [startedAt |-> 0, failures |-> 0, successes |-> 0]]]

\* rotateWindow() that leaves the rolling totals alone.
rotateWindowKeepsTotals(b, t) ==
  LET next == (b.currentWindow + 1) % Len(b.windows)
  IN [b EXCEPT !.windows[next + 1] = [failures |-> 0, successes |-> 0, startedAt |-> t],
               !.currentWindow = next]

\* SamplingBreaker.rotateWindow(now)
rotateWindow(b, t) ==
  LET next == (b.currentWindow + 1) % Len(b.windows)
  IN [b EXCEPT !.currentFailures = @ - b.windows[next + 1].failures,
               !.currentSuccesses = @ - b.windows[next + 1].successes,
               !.windows[next + 1] = [failures |-> 0, successes |-> 0, startedAt |-> t],
               !.currentWindow = next]

\* SamplingBreaker.push(success) at the time t
push(b, ok, t) ==
  LET rotated == IF t - b.windows[b.currentWindow + 1].startedAt >= b.windowSize
                 THEN rotateWindow(b, t) ELSE b
      w == rotated.currentWindow + 1
  IN IF ok
     THEN [rotated EXCEPT !.windows[w].successes = @ + 1, !.currentSuccesses = @ + 1]
     ELSE [rotated EXCEPT !.windows[w].failures = @ + 1, !.currentFailures = @ + 1]

\* SamplingBreaker.success(state) at the time t: the breaker after the call
samplingSuccess(b, st, t) ==
  push(IF st = "HalfOpen" THEN resetWindows(b) ELSE b, TRUE, t)

\* total < this.duration * this.minimumRpms, where minimumRpms is
\* minimumRps / 1000 or, minimumRps left out, 5 / (threshold * 1000)
BelowMinimumRpms(b, total) ==
  IF b.minimumRps # 0
  THEN total * 1000 < b.duration * b.minimumRps
  ELSE total * b.threshold[1] * 1000 < b.duration * 5 * b.threshold[2]

\* SamplingBreaker.failure(state) at the time t: the breaker after the call
\* and the answer
samplingFailure(b, st, t) ==
  LET after == push(b, FALSE, t)
      total == after.currentSuccesses + after.currentFailures
  IN [breaker |-> after,
      returned |->
        IF st # "Closed" THEN TRUE
        ELSE IF BelowMinimumRpms(after, total) THEN FALSE
        ELSE after.currentFailures * after.threshold[2] > after.threshold[1] * total]

\* The constructor, with options it accepts.
SamplingNew(th, samplingDuration, minimumRps) ==
  /\ sampling = NoSamplingBreaker
  /\ sampling' = NewSamplingBreaker(th, samplingDuration, minimumRps)
  /\ UNCHANGED <<samplingNow, samplingLog, samplingLast, policyVars,
                 consecutiveVars, countVars, backoffVars>>

\* breaker.success(st), called when Date.now() is t
SamplingSuccess(st, t) ==
  /\ sampling # NoSamplingBreaker
  /\ samplingLog.pushed < MaxSamples
  /\ samplingNow' = t
  /\ sampling' = samplingSuccess(sampling, st, t)
  /\ samplingLog' = [IF st = "HalfOpen" THEN NoSamples ELSE samplingLog
                       EXCEPT !.pushed = @ + 1, !.successes[t] = @ + 1]
  /\ samplingLast' = [op |-> "success", state |-> st, returned |-> FALSE]
  /\ UNCHANGED <<policyVars, consecutiveVars, countVars, backoffVars>>

\* breaker.failure(st), called when Date.now() is t
SamplingFailure(st, t) ==
  /\ sampling # NoSamplingBreaker
  /\ samplingLog.pushed < MaxSamples
  /\ samplingNow' = t
  /\ \E call \in {samplingFailure(sampling, st, t)} :
       /\ sampling' = call.breaker
       /\ samplingLast' = [op |-> "failure", state |-> st,
                           returned |-> call.returned]
  /\ samplingLog' = [samplingLog EXCEPT !.pushed = @ + 1, !.failures[t] = @ + 1]
  /\ UNCHANGED <<policyVars, consecutiveVars, countVars, backoffVars>>

\* The clock does not run backwards: the times a call can be made at.
Later == samplingNow..MaxClock

NextSampling ==
  \/ \E o \in SamplingOptions : \E d \in SamplingDurations :
       SamplingNew(o.threshold, d, o.minimumRps)
  \/ \E st \in CircuitStates : \E t \in Later : SamplingSuccess(st, t)
  \/ \E st \in CircuitStates : \E t \in Later : SamplingFailure(st, t)

SpecSampling == Init /\ [][NextSampling]_allVars

\* The strategies with a window, each in a run of its own: a circuit
\* breaker policy holds one strategy.
NextStrategy ==
  \/ sampling = NoSamplingBreaker /\ NextCount
  \/ countBreaker = NoCountBreaker /\ NextSampling

SpecStrategy == Init /\ [][NextStrategy]_allVars

----------------------------------------------------------------------------
\* Vocabulary of the properties.

InProgress(c) == pc[c] = "closed" \/ pc[c] = "probe"

BreakerErrors == {"BrokenCircuitError", "IsolatedCircuitError", "TaskCancelledError"}

\* e instanceof BrokenCircuitError: IsolatedCircuitError extends it.
IsBrokenCircuitError(kind) ==
  kind = "BrokenCircuitError" \/ kind = "IsolatedCircuitError"

OnIsolateSeq == << <<"onBreak", "isolated">>, <<"onStateChange", "Isolated">> >>

\* The activation in slot c makes an entry into execute() in this step: a
\* call by a user or the re-entry of a caller that awaited a test.
Enters(c) ==
  /\ pc[c] \in {"idle", "done", "waiting"}
  /\ pc'[c] # "idle"
  /\ pc'[c] # pc[c] \/ result'[c] # result[c] \/ waitOn'[c] \notin {waitOn[c], SettledTest}

OnHalfOpenSeq == << <<"onHalfOpen", "">>, <<"onStateChange", "HalfOpen">> >>
OnResetSeq == << <<"onReset", "">>, <<"onStateChange", "Closed">> >>
OnBreakSeq == << <<"onBreak", "failure">>, <<"onStateChange", "Open">> >>

----------------------------------------------------------------------------
\* C1 as stated: in every reachable state where the breaker is HalfOpen, at
\* most one invocation of a wrapped operation is in progress, whatever
\* interleaving of execute calls and completions led there.
C1_AtMostOneInProgress ==
  state = "HalfOpen" => Cardinality({c \in Calls : InProgress(c)}) <= 1

\* C1 amended: while the breaker is HalfOpen the probe held in innerState.test
\* is in flight, entering HalfOpen starts exactly that one invocation, and no
\* step taken while the breaker is and stays HalfOpen starts an invocation.
\* Invocations started before (in the Closed state, or as the probe of a
\* HalfOpen state that isolate() ended) may still be in progress.
C1_SingleProbePerHalfOpen ==
  /\ [](state = "HalfOpen" =>
          /\ innerState.test \in Calls
          /\ pc[innerState.test] = "probe")
  /\ [][/\ (state = "HalfOpen" /\ state' = "HalfOpen") =>
             \A c \in Calls : InProgress(c)' => (pc'[c] = pc[c] /\ invoked'[c] = invoked[c])
        /\ (state # "HalfOpen" /\ state' = "HalfOpen") =>
             /\ {c \in Calls : InProgress(c)' /\ ~InProgress(c)} = {innerState'.test}
             /\ invoked'[innerState'.test] = 1
             /\ \A c \in Calls \ {innerState'.test} : invoked'[c] <= invoked[c]
       ]_vars

\* A caller waits on the probe of the current HalfOpen state.
C1_Witness ==
  /\ state = "HalfOpen"
  /\ \E w \in Calls : pc[w] = "waiting" /\ waitOn[w] = innerState.test
  /\ pc[innerState.test] = "probe"

----------------------------------------------------------------------------
\* C2 as stated: a call that arrived while a half-open probe was in flight
\* resolves to the same result as the probe, and its own operation is never
\* invoked.
C2_SameResultAsProbe ==
  \A c \in Calls :
    waited[c] =>
      /\ invoked[c] = 0
      /\ pc[c] = "done" => result[c].src \in Calls \ {c}

\* C2 amended: a call that arrived while a half-open probe was in flight does
\* not invoke its operation and does not settle while that probe is in flight;
\* it never settles with the probe's result: it settles with the outcome of
\* its own operation, invoked once, or with BrokenCircuitError,
\* IsolatedCircuitError or TaskCancelledError without invoking it.
C2_WaiterSettlesOnItsOwn ==
  /\ [](\A c \in Calls :
          /\ pc[c] = "waiting" => (invoked[c] = 0 /\ result[c] = NoResult)
          /\ (pc[c] = "done" /\ waited[c]) =>
               \/ result[c].src = c /\ result[c].kind \in Outcomes /\ invoked[c] = 1
               \/ result[c].src = NoCall /\ result[c].kind \in BreakerErrors
                  /\ invoked[c] = 0)
  /\ [][\A w \in Calls : \A t \in Calls :
          (pc[w] = "waiting" /\ waitOn[w] = t /\ pc[t] = "probe" /\ pc'[t] = "probe")
            => (pc'[w] = "waiting" /\ waitOn'[w] = t)]_vars

\* The probe succeeded (the streak restarted with the breaker Closed) and the
\* caller that waited on it ended with the handled error of its own operation.
C2_Witness ==
  \E c \in Calls :
    /\ pc[c] = "done" /\ waited[c] /\ result[c] = [kind |-> "error", src |-> c]
    /\ invoked[c] = 1
    /\ state = "Closed" /\ count = 1 /\ innerLastFailure = FailureReason(c)
    /\ \A d \in Calls \ {c} : pc[d] = "idle"

----------------------------------------------------------------------------
\* C3: a caller that called execute while a probe was in flight has its own
\* operation invoked only after the awaited probe has settled; when it resumes
\* with the breaker Closed and its signal not aborted, its operation is invoked
\* (once), and the caller receives that operation's own outcome.
C3_WaiterRunsAfterProbe ==
  /\ [](\A c \in Calls : invoked[c] <= 1)
  /\ [][\A w \in Calls :
          /\ (pc[w] = "waiting" /\ invoked'[w] # invoked[w]) => TestSettled(w)
          /\ (pc[w] = "waiting" /\ TestSettled(w) /\ pc'[w] # "waiting"
              /\ state = "Closed" /\ ~aborted[w])
               => (pc'[w] = "closed" /\ invoked'[w] = 1)
          /\ (pc[w] = "closed" /\ waited[w] /\ pc'[w] = "done")
               => (result'[w].src = w /\ result'[w].kind \in Outcomes
                   /\ invoked'[w] = 1)
       ]_vars

\* The probe succeeded, the waiting caller's operation then ran once and the
\* caller got its own value.
C3_Witness ==
  \E c \in Calls :
    /\ pc[c] = "done" /\ waited[c] /\ invoked[c] = 1 /\ ~aborted[c]
    /\ result[c] = [kind |-> "success", src |-> c]
    /\ state = "Closed" /\ count = 0 /\ innerLastFailure.kind = "error"
    /\ \A d \in Calls \ {c} : pc[d] = "idle"
   

----------------------------------------------------------------------------
\* C4: when the probe of the HalfOpen state ends in a handled failure the
\* breaker reopens with a new open window starting now (the backoff duration
\* is positive), and a caller that waited on that probe and resumes while that
\* window has not elapsed is rejected with BrokenCircuitError without its
\* operation being invoked.
C4_WaiterRejectedAfterFailedProbe ==
  [][/\ \A t \in Calls :
          (pc[t] = "probe" /\ pc'[t] = "done" /\ result'[t].kind = "error"
           /\ state = "HalfOpen" /\ innerState.test = t)
            => /\ state' = "Open"
               /\ innerState'.openedAt = now
               /\ innerState'.backoff > 0
     /\ \A w \in Calls :
          (pc[w] = "waiting" /\ TestSettled(w)
           /\ state = "Open" /\ now - innerState.openedAt < innerState.backoff
           /\ pc'[w] # "waiting")
            => /\ pc'[w] = "done"
               /\ result'[w] = [kind |-> "BrokenCircuitError", src |-> NoCall]
               /\ invoked'[w] = 0
               /\ innerState' = innerState
    ]_vars

\* The probe failed with a handled error, the circuit is open again and the
\* caller that waited was rejected.
C4_Witness ==
  \E w \in Calls :
    /\ pc[w] = "done" /\ waited[w] /\ invoked[w] = 0
    /\ result[w] = [kind |-> "BrokenCircuitError", src |-> NoCall]
    /\ innerLastFailure.kind = "error"
    /\ state = "Open" /\ innerState.attemptNo = 2
    /\ now - innerState.openedAt < innerState.backoff
   

----------------------------------------------------------------------------
\* C5: while the breaker is Open and now - openedAt < the duration of the
\* current backoff step, an execute call (a fresh one or the re-entry of a
\* caller that waited) is rejected with BrokenCircuitError, its operation is
\* not invoked, and state, openedAt, backoff step and attempt number stay.
C5_FailFastWhileOpen ==
  [][(state = "Open" /\ now - innerState.openedAt < innerState.backoff) =>
       \A c \in Calls :
         (pc[c] \in {"idle", "done", "waiting"} /\ pc'[c] # "idle"
          /\ (pc'[c] # pc[c] \/ result'[c] # result[c]))
           => /\ pc'[c] = "done"
              /\ result'[c] = [kind |-> "BrokenCircuitError", src |-> NoCall]
              /\ invoked'[c] = 0
              /\ ~InProgress(c)'
              /\ innerState' = innerState
              /\ emitted' = <<>>
    ]_vars

\* A fresh call was rejected while the circuit is open and its window has not
\* elapsed.
C5_Witness ==
  \E c \in Calls :
    /\ pc[c] = "done" /\ ~waited[c] /\ invoked[c] = 0
    /\ result[c] = [kind |-> "BrokenCircuitError", src |-> NoCall]
    /\ state = "Open" /\ now - innerState.openedAt < innerState.backoff
    /\ innerState.attemptNo = 1
----------------------------------------------------------------------------
\* C6: from Closed the breaker transitions to Open exactly when a handled
\* failure makes the strategy's failure() return true (Consecutive(2): the
\* second consecutive handled failure, not the first); on that transition
\* lastFailure holds the failure reason and onBreak is emitted exactly once;
\* earlier handled failures leave the state Closed.
C6_OpensExactlyOnThreshold ==
  [][state = "Closed" =>
       LET failing == {c \in Calls : InProgress(c) /\ pc'[c] = "done"
                                      /\ result'[c].kind = "error"}
       IN /\ (state' = "Open") <=> (failing # {} /\ count + 1 >= Threshold)
          /\ (state' = "Open") =>
               /\ \A c \in failing : innerLastFailure' = FailureReason(c)
               /\ emitted' = OnBreakSeq
          /\ (failing # {} /\ count + 1 < Threshold) => state' = "Closed"
    ]_vars
----------------------------------------------------------------------------
\* C7: an operation invoked in the Closed case that throws an error the
\* policy does not handle has that error propagated unchanged and changes
\* nothing in the breaker: state, lastFailure and the strategy's counter stay
\* as they were and nothing is emitted.
C7_UnhandledLeavesBreakerAlone ==
  [][\A c \in Calls :
       (pc[c] = "closed" /\ pc'[c] = "done" /\ result'[c].kind = "unhandled")
         => /\ result'[c] = [kind |-> "unhandled", src |-> c]
            /\ innerState' = innerState
            /\ innerLastFailure' = innerLastFailure
            /\ count' = count
            /\ emitted' = <<>>
    ]_vars

\* After one handled failure of another call, a call threw an unhandled error:
\* the breaker is still Closed with a streak of 1 and the earlier lastFailure.
C7_Witness ==
  \E c \in Calls :
    /\ pc[c] = "done" /\ ~waited[c] /\ result[c] = [kind |-> "unhandled", src |-> c]
    /\ state = "Closed" /\ count = 1 /\ now = 0
    /\ innerLastFailure.kind = "error" /\ innerLastFailure.src # c
   

----------------------------------------------------------------------------
\* C8: if the probe throws an error the policy does not handle while the
\* breaker is HalfOpen, the breaker transitions to Closed, onReset is emitted
\* (followed by onStateChange) and the original error goes to the probe's
\* caller.
C8_UnhandledProbeCloses ==
  [][\A c \in Calls :
       (pc[c] = "probe" /\ pc'[c] = "done" /\ result'[c].kind = "unhandled"
        /\ state = "HalfOpen")
         => /\ innerState' = ClosedState
            /\ emitted' = OnResetSeq
            /\ result'[c] = [kind |-> "unhandled", src |-> c]
    ]_vars

\* The probe has just thrown an unhandled error and the breaker is Closed.
C8_Witness ==
  /\ state = "Closed" /\ emitted = OnResetSeq
  /\ \E c \in Calls : pc[c] = "done" /\ result[c] = [kind |-> "unhandled", src |-> c]
  /\ \A c \in Calls : pc[c] \in {"idle", "done"}

----------------------------------------------------------------------------
\* C9: once the open duration has elapsed, the next execute call (fresh, or
\* the re-entry of a caller that waited) runs as the probe: the state becomes
\* HalfOpen with that call as test and onHalfOpen is emitted once; if the
\* probe succeeds while the breaker is HalfOpen the strategy's success() runs
\* (Consecutive counter 0 afterwards), the breaker becomes Closed and onReset
\* is emitted once.
C9_ProbeSuccessCloses ==
  [][/\ \A c \in Calls :
          (state = "Open" /\ now - innerState.openedAt >= innerState.backoff
           /\ pc[c] \in {"idle", "done", "waiting"} /\ pc'[c] # "idle"
           /\ (pc'[c] # pc[c] \/ result'[c] # result[c]))
            => /\ pc'[c] = "probe"
               /\ invoked'[c] = 1
               /\ state' = "HalfOpen"
               /\ innerState'.test = c
               /\ emitted' = OnHalfOpenSeq
     /\ \A c \in Calls :
          (pc[c] = "probe" /\ pc'[c] = "done" /\ result'[c].kind = "success"
           /\ state = "HalfOpen")
            => /\ count' = 0
               /\ innerState' = ClosedState
               /\ emitted' = OnResetSeq
               /\ result'[c] = [kind |-> "success", src |-> c]
    ]_vars

\* The probe has just succeeded: Closed, reset emitted, streak 0.
C9_Witness ==
  /\ state = "Closed" /\ emitted = OnResetSeq /\ count = 0
  /\ innerLastFailure.kind = "error"
  /\ \E c \in Calls : pc[c] = "done" /\ result[c] = [kind |-> "success", src |-> c]
  /\ \A c \in Calls : pc[c] \in {"idle", "done"}

----------------------------------------------------------------------------
\* C10: an opening from Closed takes the first step of the halfOpenAfter
\* factory with attempt 1; entering HalfOpen keeps the step and raises the
\* attempt by one; a failed probe of the HalfOpen state reopens the circuit
\* with next() of that step and the raised attempt, so the k-th consecutive
\* opening has attempt k and the k-th step; after the circuit has closed the
\* next opening starts from the factory with attempt 1 again.
C10_ReopenBackoff ==
  /\ [](/\ state = "Open" =>
             /\ innerState.attemptNo >= 1
             /\ innerState.backoff = FactoryDuration + innerState.attemptNo
        /\ state = "HalfOpen" =>
             /\ innerState.attemptNo >= 2
             /\ innerState.backoff = FactoryDuration + innerState.attemptNo - 1)
  /\ [][/\ (state = "Closed" /\ state' = "Open") =>
             /\ innerState'.attemptNo = 1
             /\ innerState'.backoff = FactoryDuration + 1
             /\ innerState'.openedAt = now
        /\ (state = "Open" /\ state' = "HalfOpen") =>
             /\ innerState'.attemptNo = innerState.attemptNo + 1
             /\ innerState'.backoff = innerState.backoff
        /\ (state = "HalfOpen" /\ state' = "Open") =>
             /\ innerState'.attemptNo = innerState.attemptNo
             /\ innerState'.backoff = innerState.backoff + 1
             /\ innerState'.openedAt = now
        /\ \A c \in Calls :
             (pc[c] = "probe" /\ pc'[c] = "done" /\ result'[c].kind = "error"
              /\ state = "HalfOpen")
               => state' = "Open"
       ]_vars

\* The circuit was reopened by a failed probe: second opening, second step.
C10_Witness ==
  /\ state = "Open" /\ innerState.attemptNo = 2 /\ innerState.backoff = 2
  /\ innerState.openedAt >= 1
  /\ \E c \in Calls : pc[c] = "done" /\ innerLastFailure = FailureReason(c)
                      /\ result[c] = [kind |-> "error", src |-> c]
----------------------------------------------------------------------------
\* C11: while the breaker is Isolated, an execute call (a fresh one or the
\* re-entry of a caller that waited) is rejected with IsolatedCircuitError,
\* which is a BrokenCircuitError, its operation is not invoked and the
\* breaker's state is left as it is.
C11_IsolatedRejects ==
  [][state = "Isolated" =>
       \A c \in Calls :
         Enters(c) =>
           /\ pc'[c] = "done"
           /\ result'[c] = [kind |-> "IsolatedCircuitError", src |-> NoCall]
           /\ IsBrokenCircuitError(result'[c].kind)
           /\ invoked'[c] = 0
           /\ innerState' = innerState
           /\ emitted' = <<>>
    ]_vars

\* A call made while a handle is live was rejected without being invoked.
C11_Witness ==
  /\ state = "Isolated" /\ innerState.counters = 1
  /\ \E c \in Calls :
       /\ pc[c] = "done" /\ ~waited[c] /\ invoked[c] = 0
       /\ result[c] = [kind |-> "IsolatedCircuitError", src |-> NoCall]
----------------------------------------------------------------------------
\* C12: isolation is reference-counted.  While handles are undisposed the
\* breaker is Isolated and counts them; it leaves Isolated for Closed only in
\* the step that disposes the last of them, and that step emits onReset once;
\* a step that disposes no live handle (dispose() of a handle disposed before
\* among them) changes neither the count nor the state; isolate() adds one to
\* the count, and onBreak({ isolated: true }) is emitted by exactly the
\* isolate() call that enters Isolated.
C12_IsolationIsCounted ==
  /\ []((\E h \in Handles : live[h]) =>
          /\ state = "Isolated"
          /\ innerState.counters = Cardinality({h \in Handles : live[h]}))
  /\ [][/\ (state = "Isolated" /\ state' # "Isolated") =>
             /\ state' = "Closed"
             /\ Cardinality({h \in Handles : live[h]}) = 1
             /\ \A h \in Handles : ~live'[h]
             /\ emitted' = OnResetSeq
        /\ (state = "Isolated" /\ live' = live) =>
             /\ innerState' = innerState
             /\ emitted' = <<>>
        /\ (state = "Isolated" /\ state' = "Isolated" /\ live' # live) =>
             /\ emitted' = <<>>
             /\ \E h \in Handles :
                  /\ live'[h] # live[h]
                  /\ \A g \in Handles \ {h} : live'[g] = live[g]
                  /\ innerState'.counters =
                       innerState.counters + (IF live'[h] THEN 1 ELSE -1)
        /\ (\E i \in 1..Len(emitted') : emitted'[i] = <<"onBreak", "isolated">>)
             <=> (state # "Isolated" /\ state' = "Isolated")
        /\ (state # "Isolated" /\ state' = "Isolated") =>
             /\ emitted' = OnIsolateSeq
             /\ innerState'.counters = 1
       ]_vars

\* Two handles were taken and the first has been disposed: the breaker is
\* still Isolated on the second, and the first can be disposed again.
C12_Witness ==
  /\ state = "Isolated" /\ innerState.counters = 1
  /\ ~live[1] /\ live[2]
  /\ ENABLED DisposeAgain(1)
----------------------------------------------------------------------------
\* C13: a caller that waited on a probe and whose own cancellation signal is
\* requested, resuming after the probe settled with the breaker Closed, is
\* rejected with TaskCancelledError and its operation is not invoked.
C13_AbortedWaiterIsCancelled ==
  [][\A w \in Calls :
       (/\ pc[w] = "waiting" /\ TestSettled(w)
        /\ state = "Closed" /\ aborted[w]
        /\ pc'[w] # "waiting")
       => /\ pc'[w] = "done"
          /\ result'[w] = [kind |-> "TaskCancelledError", src |-> NoCall]
          /\ invoked'[w] = 0]_vars
----------------------------------------------------------------------------
\* C14: every step that changes the breaker's state emits the notification of
\* the state entered exactly once (onBreak for Open and for Isolated, onReset
\* for Closed, onHalfOpen for HalfOpen), followed by the onStateChange
\* emission carrying the new state, and nothing else; a step that leaves the
\* state as it is emits nothing.
C14_TransitionsNotify ==
  [][/\ state' # state =>
          /\ Len(emitted') = 2
          /\ emitted'[1][1] = (CASE state' = "Open" -> "onBreak"
                                 [] state' = "Isolated" -> "onBreak"
                                 [] state' = "Closed" -> "onReset"
                                 [] state' = "HalfOpen" -> "onHalfOpen")
          /\ emitted'[2] = <<"onStateChange", state'>>
          /\ (state' = "Isolated") <=> (emitted'[1][2] = "isolated")
     /\ state' = state => emitted' = <<>>]_vars

\* A failing probe has just sent the breaker from HalfOpen back to Open: the
\* step emitted onBreak and then onStateChange(Open).
C14_Witness ==
  /\ state = "Open" /\ innerState.attemptNo = 2
  /\ emitted = OnBreakSeq
  /\ \E c \in Calls : pc[c] = "done" /\ invoked[c] = 1
                      /\ result[c].kind = "error" /\ result[c].src = c
----------------------------------------------------------------------------
\* C15: in every reachable state of the bulkhead 0 <= active <= capacity and
\* 0 <= queue.length <= queueCapacity, that is executionSlots and queueSlots
\* are never negative and never above their capacities; active counts the
\* running jobs and the queue holds the queued ones, each once.
C15_BulkheadBounds ==
  /\ 0 <= active /\ active <= capacity
  /\ 0 <= Len(queue) /\ Len(queue) <= queueCapacity
  /\ executionSlots \in 0..capacity
  /\ queueSlots \in 0..queueCapacity
  /\ active = Cardinality({j \in Jobs : where[j] = "running"})
  /\ {queue[i] : i \in 1..Len(queue)} = {j \in Jobs : where[j] = "queued"}
  /\ \A i, k \in 1..Len(queue) : queue[i] = queue[k] => i = k

\* The bulkhead is full after earlier jobs have settled and their slots were
\* taken again: no execution slot and no queue slot is left.
C15_Witness ==
  /\ active = capacity /\ Len(queue) = queueCapacity
  /\ \E j \in Jobs : where[j] = "running" /\ runs[j] = 1
                     /\ \E i \in Jobs : i > j /\ where[i] = "queued"
  /\ \E j \in Jobs : where[j] = "running" /\ \A i \in Jobs : where[i] = "queued" => i < j
----------------------------------------------------------------------------
\* A user calls execute() in this step and the call is job j.
Submitted(j) ==
  /\ where[j] \in {"idle", "done"}
  /\ where'[j] # "idle"

\* The promise of job j is rejected with BulkheadRejectedError in this step.
RejectedByBulkhead(j) ==
  /\ where'[j] = "done"
  /\ outcome'[j].kind = "BulkheadRejectedError"

\* C16: a call of execute is rejected with BulkheadRejectedError, carrying
\* capacity and queueCapacity and with onReject emitted, exactly when at the
\* time of the call executionSlots = 0 and queueSlots = 0; the rejected call's
\* fn is not run and active and the queue stay as they are.  Otherwise the
\* call runs at once when executionSlots > 0, and is queued when not.
C16_Admission ==
  [][\A j \in Jobs :
       /\ RejectedByBulkhead(j) <=>
            (Submitted(j) /\ executionSlots = 0 /\ queueSlots = 0)
       /\ RejectedByBulkhead(j) =>
            /\ outcome'[j].limits = <<capacity, queueCapacity>>
            /\ rejectEmitted'
            /\ runs'[j] = 0
            /\ active' = active /\ queue' = queue
       /\ (Submitted(j) /\ executionSlots > 0) =>
            /\ where'[j] = "running" /\ runs'[j] = 1
            /\ active' = active + 1 /\ queue' = queue
       /\ (Submitted(j) /\ executionSlots = 0 /\ queueSlots > 0) =>
            /\ where'[j] = "queued" /\ runs'[j] = 0
            /\ queue' = Append(queue, j) /\ active' = active
    ]_bulkheadVars
----------------------------------------------------------------------------
\* The fn of job j is called in this step.
Starts(j) == where'[j] = "running" /\ (where[j] # "running" \/ runs'[j] # runs[j])

\* C17: queued calls are started in the order of their submission: the job
\* whose fn is called is the one that has waited longest, and a call made
\* later is not started while a call queued before it still waits.
C17_Fifo ==
  [][\A j \in Jobs : Starts(j) =>
       (waitingOrder = <<>> \/ Head(waitingOrder) = j)]_bulkheadVars
----------------------------------------------------------------------------
\* C18: a call whose signal is already requested when it is submitted is
\* rejected with TaskCancelledError without running, whatever the counters;
\* a waiting call whose signal became requested is rejected with
\* TaskCancelledError when its dequeued item re-enters, and no call whose
\* signal is requested has its fn called.  Neither takes a slot.
C18_BulkheadCancellation ==
  [][\A j \in Jobs :
       /\ (Submitted(j) /\ cancelRequested'[j]) =>
            /\ where'[j] = "done" /\ outcome'[j] = TaskCancelledError
            /\ runs'[j] = 0
            /\ active' = active /\ queue' = queue /\ ~rejectEmitted'
       /\ (where[j] = "dequeued" /\ cancelRequested[j] /\ where'[j] # "dequeued") =>
            /\ where'[j] = "done" /\ outcome'[j] = TaskCancelledError
            /\ runs'[j] = 0
            /\ active' = active /\ queue' = queue /\ ~rejectEmitted'
       /\ (where[j] = "queued" /\ cancelRequested[j]) =>
            where'[j] \in {"queued", "dequeued"}
       /\ Starts(j) => ~cancelRequested'[j]
    ]_bulkheadVars

\* A job that was queued and then cancelled has just been rejected at its
\* re-entry: a user's call would have taken the free job below it.
C18_Witness ==
  \E j \in Jobs :
    /\ where[j] = "done" /\ outcome[j] = TaskCancelledError
    /\ cancelRequested[j] /\ runs[j] = 0
    /\ \E i \in Jobs : i < j /\ where[i] = "idle"
----------------------------------------------------------------------------
\* C19: when every fn that runs settles, every call accepted into the queue
\* is eventually started, and its promise eventually settles with the outcome
\* of its own fn.
C19_QueuedEventuallySettles ==
  \A j \in Jobs :
    /\ (where[j] = "queued") ~> (where[j] = "running")
    /\ (where[j] = "queued") ~>
         (where[j] = "done" /\ \E o \in JobOutcomes : outcome[j] = OwnOutcome(j, o))
----------------------------------------------------------------------------
\* C20: a run of a policy that allows N retries, which is not cancelled and
\* all of whose invocations end in a handled failure, has called fn exactly
\* N + 1 times when it settles, has emitted onGiveUp exactly once, with the reason of the last invocation,
\* and settles with that error or value.
C20_GiveUpAfterNRetries ==
  \A r \in Runs :
    (rpc[r] = "done" /\ settled[r].kind \in {"error", "value"}
       /\ ~cancellation[r]) =>
      /\ calls[r] = Factory.limit + 1
      /\ settled[r].attempt = Factory.limit
      /\ giveUps[r] = <<settled[r]>>
----------------------------------------------------------------------------
\* What a listener reads as `attempt` from an emitted event: undefined when
\* the event has no such property.
Undefined == -1

EventAttempt(e) == IF "attempt" \in DOMAIN e THEN e.attempt ELSE Undefined

\* C21: an error the retry policy does not handle is propagated at once: the
\* run settles with it in the step that ends the invocation, without another
\* invocation, without a delay and without an onRetry or onGiveUp emission,
\* also when backoff steps remain; no emission ever carries such an error.
C21_UnhandledPropagates ==
  /\ [](\A r \in Runs :
          /\ \A k \in 1..Len(onRetrys[r]) : onRetrys[r][k].kind # "unhandled"
          /\ \A k \in 1..Len(giveUps[r]) : giveUps[r][k].kind # "unhandled")
  /\ [][\A r \in Runs :
          (rpc[r] = "invoking" /\ rpc'[r] = "done"
           /\ settled'[r].kind = "unhandled") =>
            /\ calls'[r] = calls[r]
            /\ onRetrys'[r] = onRetrys[r]
            /\ giveUps'[r] = <<>>
            /\ settled'[r].attempt = retries[r]]_retryVars

\* An unhandled error ended the second of three possible invocations.
C21_Witness ==
  \E r \in Runs :
    /\ rpc[r] = "done" /\ settled[r] = [kind |-> "unhandled", attempt |-> 1]
    /\ optionsBackoff = 2 /\ calls[r] = 2
    /\ Len(onRetrys[r]) = 1 /\ giveUps[r] = <<>>
----------------------------------------------------------------------------
\* C22: the k-th retry of a run is preceded by exactly one onRetry emission,
\* made between the failed invocation and the delay, that carries attempt = k
\* and the duration of the k-th backoff step; the next invocation starts when
\* the delay is over, and fn is given attempt 0 at first and k at the k-th
\* retry.
C22_RetryOrdering ==
  /\ [](\A r \in Runs :
          /\ rpc[r] = "invoking" => Len(onRetrys[r]) = retries[r]
                                    /\ calls[r] = retries[r] + 1
          /\ rpc[r] = "delaying" => Len(onRetrys[r]) = retries[r] + 1
          /\ \A k \in 1..Len(onRetrys[r]) :
               /\ EventAttempt(onRetrys[r][k]) = k
               /\ onRetrys[r][k].delay = Factory.interval)
  /\ [][\A r \in Runs :
          /\ (rpc[r] = "invoking" /\ rpc'[r] = "delaying") =>
               /\ Len(onRetrys'[r]) = Len(onRetrys[r]) + 1
               /\ calls'[r] = calls[r] /\ retries'[r] = retries[r]
          /\ (rpc[r] = "delaying" /\ rpc'[r] # "delaying") =>
               /\ rpc'[r] = "invoking"
               /\ retries'[r] = retries[r] + 1
               /\ calls'[r] = calls[r] + 1
               /\ onRetrys'[r] = onRetrys[r]]_retryVars
----------------------------------------------------------------------------
\* C23: when the cancellation is requested at the time an invocation ends in
\* a handled failure, the run makes no further invocation and no delay: it
\* emits onGiveUp with that failure and settles with it; cancelled during the
\* first invocation, it has called fn exactly once.
C23_CancelledGivesUp ==
  /\ [](\A r \in Runs :
          /\ rpc[r] \in {"invoking", "delaying"} => ~cancellation[r]
          /\ (rpc[r] = "done" /\ cancellation[r] /\ retries[r] = 0) =>
               calls[r] = 1)
  /\ [][\A r \in Runs :
          (rpc[r] = "invoking" /\ cancellation'[r]) =>
            /\ rpc'[r] = "done"
            /\ calls'[r] = calls[r]
            /\ onRetrys'[r] = onRetrys[r]
            /\ HandledFailure(settled'[r].kind) =>
                 /\ giveUps'[r] = <<settled'[r]>>
                 /\ settled'[r].attempt = retries[r]]_retryVars

\* Cancelled during the first of three possible invocations, which failed.
C23_Witness ==
  \E r \in Runs :
    /\ rpc[r] = "done" /\ cancellation[r]
    /\ settled[r] = [kind |-> "error", attempt |-> 0]
    /\ optionsBackoff = 2 /\ calls[r] = 1
    /\ onRetrys[r] = <<>> /\ giveUps[r] = <<settled[r]>>
----------------------------------------------------------------------------
\* The number of failure() calls at the end of log since the last success().
RECURSIVE Streak(_)
Streak(log) ==
  IF log = <<>> \/ log[Len(log)] = "success" THEN 0
  ELSE 1 + Streak(SubSeq(log, 1, Len(log) - 1))

----------------------------------------------------------------------------
\* How many of the elements of the sequence w are v.
RECURSIVE Occurrences(_, _)
Occurrences(w, v) ==
  IF w = <<>> THEN 0
  ELSE (IF Head(w) = v THEN 1 ELSE 0) + Occurrences(Tail(w), v)

\* C25: called in the Closed state, failure() of a CountBreaker returns true
\* if and only if, the sample recorded, the window holds at least
\* minimumNumberOfCalls samples and more than threshold * total of them are
\* failures; with fewer samples it returns false whatever their ratio.
C25_CountBreakerOpens ==
  (countLast.op = "failure" /\ countLast.state = "Closed") =>
    (countLast.returned <=>
       /\ Len(window) >= countBreaker.minimumNumberOfCalls
       /\ Occurrences(window, "false") * countBreaker.threshold[2]
            > countBreaker.threshold[1] * Len(window))

\* Two failures of three samples open a breaker of threshold 1/2.
C25_Witness ==
  /\ countLast = [op |-> "failure", state |-> "Closed", returned |-> TRUE]
  /\ countBreaker.threshold = <<1, 2>>
  /\ countBreaker.minimumNumberOfCalls = 2
  /\ window = <<"true", "false", "false">>
----------------------------------------------------------------------------
\* The durations of the first n steps a ConstantBackoff or IterableBackoff
\* yields on its own, from the step index on; shorter when it stops before.
RECURSIVE LeafRun(_, _, _)
LeafRun(l, index, n) ==
  IF n = 0 \/ index = NoStep THEN <<>>
  ELSE <<LeafDuration(l, index)>> \o
       LeafRun(l, LeafNext(l, index), n - 1)

\* C26: a CompositeBackoff yields its k-th step exactly when both of its
\* children yield a k-th step, and the duration of that step is the one of
\* the first child for 'a', of the second for 'b', the larger of the two for
\* 'max' and the smaller for 'min'; the composite of bias 'max' of
\* ConstantBackoff(10, 4) and ConstantBackoff(20, 2) yields 20, 20 and stops.
C26_CompositeBackoff ==
  IsComposite(backoffFactory) =>
    LET f == backoffFactory
        n == Len(yielded)
        runA == LeafRun(f.a, FactoryNext, n + 1)
        runB == LeafRun(f.b, FactoryNext, n + 1)
    IN /\ Len(runA) >= n /\ Len(runB) >= n
       /\ \A k \in 1..n :
            yielded[k] = CASE f.bias = "a" -> runA[k]
                           [] f.bias = "b" -> runB[k]
                           [] f.bias = "max" ->
                                IF runA[k] >= runB[k] THEN runA[k] ELSE runB[k]
                           [] f.bias = "min" ->
                                IF runA[k] <= runB[k] THEN runA[k] ELSE runB[k]
       /\ stopped => (Len(runA) = n \/ Len(runB) = n)
       /\ (/\ f = CompositeBackoff("max", ConstantBackoff(10, 4),
                                   ConstantBackoff(20, 2))
           /\ stopped) => yielded = <<20, 20>>

\* The composite of the example has stopped after two steps of 20.
C26_Witness ==
  /\ backoffFactory = CompositeBackoff("max", ConstantBackoff(10, 4),
                                       ConstantBackoff(20, 2))
  /\ stopped /\ yielded = <<20, 20>>
----------------------------------------------------------------------------
\* C27: an IterableBackoff yields the durations of its list in the order of
\* the list, one a step, the first element first; at the end of the list it
\* does not stop: every further step has the last duration of the list.
C27_IterableRepeatsLast ==
  (~IsComposite(backoffFactory) /\ backoffFactory.a.kind = "iterable") =>
    LET d == backoffFactory.a.durations
    IN /\ \A k \in 1..Len(yielded) : yielded[k] = d[Min(k, Len(d))]
       /\ ~stopped
----------------------------------------------------------------------------
\* The call of job j has been accepted and its promise is pending.
Accepted(j) == where[j] \notin {"idle", "done"}

InQueue(j) == \E i \in 1..Len(queue) : queue[i] = j

\* C28: from its acceptance to its settlement a call of the bulkhead is
\* either running or in the queue, never both and never neither of them,
\* also between the moment it is taken off the queue and the moment it is
\* started.
C28_RunningOrQueued ==
  \A j \in Jobs :
    Accepted(j) => ((where[j] = "running") # InQueue(j))
----------------------------------------------------------------------------
\* C29: active is the number of jobs whose fn the bulkhead has started and
\* that have not settled, and it goes down by exactly one when such a job
\* settles, resolved or rejected, and at no other step; executionSlots is
\* capacity less the running jobs and queueSlots is queueCapacity less the
\* jobs waiting in the queue, and both are back at their capacities when
\* every submitted call has settled.
C29_Accounting ==
  /\ [](/\ active = Cardinality({j \in Jobs : where[j] = "running"})
        /\ executionSlots = capacity - Cardinality({j \in Jobs : where[j] = "running"})
        /\ queueSlots = queueCapacity - Cardinality({j \in Jobs : where[j] = "queued"})
        /\ (\A j \in Jobs : ~Accepted(j)) =>
             (executionSlots = capacity /\ queueSlots = queueCapacity))
  /\ [][/\ \A j \in Jobs :
             (where[j] = "running" /\ where'[j] # "running") =>
               /\ where'[j] = "done"
               /\ outcome'[j].kind \in JobOutcomes
               /\ active' = active - 1
        /\ active' < active =>
             \E j \in Jobs : where[j] = "running" /\ where'[j] = "done"]_bulkheadVars

\* A job that had been submitted beside another one was rejected by its fn,
\* it was the last one pending, and all slots are free again.
C29_Witness ==
  \E j \in Jobs :
    /\ j > 1
    /\ where[j] = "done" /\ outcome[j] = OwnOutcome(j, "error")
    /\ \A i \in Jobs : i # j => where[i] = "idle"
    /\ executionSlots = capacity /\ queueSlots = queueCapacity
----------------------------------------------------------------------------
\* The samples of the circular buffer from the slot the next sample goes to,
\* around the buffer, the empty slots left out.
RECURSIVE Stored(_, _, _)
Stored(samples, from, n) ==
  IF n = 0 THEN <<>>
  ELSE LET rest == Stored(samples, (from + 1) % Len(samples), n - 1)
       IN IF samples[from + 1] = "null" THEN rest
          ELSE <<samples[from + 1]>> \o rest

Full(samples) == \A i \in DOMAIN samples : samples[i] # "null"

\* C30: after any calls of success() and failure(), successes and failures
\* of a CountBreaker are the numbers of true and of false samples stored in
\* its buffer, together at most its size, the buffer holds the last samples
\* in their order, and a sample recorded into a full buffer takes the place
\* of the oldest one and of no other.
C30_RunningTotals ==
  /\ [](/\ countBreaker.successes =
             Cardinality({i \in DOMAIN countBreaker.samples :
                            countBreaker.samples[i] = "true"})
        /\ countBreaker.failures =
             Cardinality({i \in DOMAIN countBreaker.samples :
                            countBreaker.samples[i] = "false"})
        /\ countBreaker.successes + countBreaker.failures
             <= Len(countBreaker.samples)
        /\ countBreaker # NoCountBreaker =>
             Stored(countBreaker.samples, countBreaker.currentSample,
                    Len(countBreaker.samples)) = window)
  /\ [][(countBreaker # NoCountBreaker /\ Full(countBreaker.samples)
         /\ Full(countBreaker'.samples)) =>
          \E v \in {"true", "false"} :
            /\ countBreaker'.samples =
                 [countBreaker.samples EXCEPT ![countBreaker.currentSample + 1] = v]
            /\ countBreaker.samples[countBreaker.currentSample + 1] = Head(window)
            /\ window' = Append(Tail(window), v)]_countVars

\* The buffer of size 3 has wrapped around: five samples were recorded, the
\* two oldest are gone and the next one goes to slot 2.
C30_Witness ==
  /\ countBreaker.samples = <<"false", "true", "true">>
  /\ countBreaker.currentSample = 1
  /\ countBreaker.successes = 2 /\ countBreaker.failures = 1
  /\ window = <<"true", "true", "false">>
  /\ countLast.op = "failure"

\* The failures over the first n buckets of a ring.
RECURSIVE FailuresUpTo(_, _)
FailuresUpTo(ws, n) ==
  IF n = 0 THEN 0 ELSE ws[n].failures + FailuresUpTo(ws, n - 1)

\* The successes over the first n buckets of a ring.
RECURSIVE SuccessesUpTo(_, _)
SuccessesUpTo(ws, n) ==
  IF n = 0 THEN 0 ELSE ws[n].successes + SuccessesUpTo(ws, n - 1)

\* The failures and the successes over all buckets of a ring.
RingFailures(ws) == FailuresUpTo(ws, Len(ws))
RingSuccesses(ws) == SuccessesUpTo(ws, Len(ws))

\* A call that took the breaker from before to after and pushed ok moved to
\* the next bucket of the ring: the totals lost what that bucket held, the
\* bucket restarted with the sample pushed, no other bucket changed.
Replaced(before, after, ok) ==
  LET next == (before.currentWindow + 1) % Len(before.windows)
      old == before.windows[next + 1]
  IN /\ after.currentWindow = next
     /\ after.currentFailures =
          before.currentFailures - old.failures + IF ok THEN 0 ELSE 1
     /\ after.currentSuccesses =
          before.currentSuccesses - old.successes + IF ok THEN 1 ELSE 0
     /\ after.windows[next + 1].failures = IF ok THEN 0 ELSE 1
     /\ after.windows[next + 1].successes = IF ok THEN 1 ELSE 0
     /\ \A i \in DOMAIN before.windows :
          i # next + 1 => after.windows[i] = before.windows[i]

\* C31: the rolling totals of a SamplingBreaker are the sums of the failures
\* and of the successes over the buckets of its ring, whatever calls were
\* made at whatever times; and a call that rotates to the next bucket
\* (without a reset before it) subtracts from the totals the counts of the
\* bucket it replaces and nothing else.
C31_RollingTotals ==
  /\ [](/\ sampling.currentFailures = RingFailures(sampling.windows)
        /\ sampling.currentSuccesses = RingSuccesses(sampling.windows))
  /\ [][(sampling'.currentWindow # sampling.currentWindow
         /\ ~(samplingLast'.op = "success" /\ samplingLast'.state = "HalfOpen")) =>
          Replaced(sampling, sampling', samplingLast'.op = "success")]_samplingVars

\* The ring of five buckets has wrapped around: six samples were pushed, the
\* sixth restarted bucket 0, and the totals hold the five that are left.
C31_Witness ==
  /\ samplingLog.pushed = 6
  /\ sampling.currentWindow = 0
  /\ sampling.windows[1].startedAt >= 5
  /\ sampling.currentFailures + sampling.currentSuccesses = 5
  /\ sampling.currentFailures = 3

\* The failures and the successes of a log pushed at the time t or later.
RECURSIVE FailuresSince(_, _)
FailuresSince(log, t) ==
  IF t > MaxClock THEN 0
  ELSE (IF t >= 0 THEN log.failures[t] ELSE 0) + FailuresSince(log, t + 1)

RECURSIVE SuccessesSince(_, _)
SuccessesSince(log, t) ==
  IF t > MaxClock THEN 0
  ELSE (IF t >= 0 THEN log.successes[t] ELSE 0) + SuccessesSince(log, t + 1)

\* C39: after every call on a SamplingBreaker the totals that failure()
\* judges by count no sample pushed more than the sampling duration before
\* that call: they are at most the failures and the successes pushed within
\* the duration, also when the call comes several bucket intervals after
\* the one before it.
C39_ExpiredSamplesDropped ==
  sampling # NoSamplingBreaker =>
    /\ sampling.currentFailures <=
         FailuresSince(samplingLog, samplingNow - sampling.duration)
    /\ sampling.currentSuccesses <=
         SuccessesSince(samplingLog, samplingNow - sampling.duration)

\* The last call on a strategy was success(HalfOpen).
ProbeSucceeded(last) == last.op = "success" /\ last.state = "HalfOpen"

\* The call on a strategy after the call `last` is failure(Closed).
ThenFailureClosed(last, call) ==
  ProbeSucceeded(last) /\ call.op = "failure" /\ call.state = "Closed"

OneFailureOpens(th, n, reached) == reached /\ th[2] > th[1] * n

Running(r) == rpc[r] \in {"invoking", "delaying"}

\* C33: every run of execute() steps a chain of its own: the step a run
\* holds is the one its own retries lead to from the factory (step n while
\* it waits for retry n + 1, none before its first failure), and while a
\* run waits, whatever the other runs do leaves its step, its retries and
\* its delays as they are.
C33_ChainsIndependent ==
  /\ [](\A r \in Runs :
          /\ rpc[r] = "delaying" => step[r] = retries[r]
          /\ rpc[r] = "invoking" =>
               step[r] = IF retries[r] = 0 THEN NoStep ELSE retries[r] - 1
          /\ Running(r) => Len(onRetrys[r]) = IF step[r] = NoStep THEN 0
                                              ELSE step[r] + 1)
  /\ [][\A r \in Runs :
          (rpc'[r] = rpc[r] /\ Running(r)) =>
            <<step'[r], retries'[r], onRetrys'[r], giveUps'[r]>> =
              <<step[r], retries[r], onRetrys[r], giveUps[r]>>]_retryVars

\* Two runs of one policy at different steps: the first waits for its
\* second retry while the second, started later, waits for its first.
C33_Witness ==
  /\ rpc[1] = "delaying" /\ step[1] = 1 /\ retries[1] = 1
  /\ rpc[2] = "delaying" /\ step[2] = 0 /\ retries[2] = 0

\* Activation c settles in this step.
Completes(c) == pc[c] \in {"closed", "probe", "waiting"} /\ pc'[c] = "done"

\* C34: while the breaker is HalfOpen, the completion of a call that took
\* the Closed case of execute leaves it HalfOpen, whatever the call ends in
\* and whatever the strategy answers: only the probe and isolate() end the
\* HalfOpen state.
C34_ClosedCallKeepsHalfOpen ==
  [][\A c \in Calls :
       (state = "HalfOpen" /\ pc[c] = "closed" /\ pc'[c] = "done") =>
         innerState' = innerState]_vars

\* C35: the completion of a probe changes the state of the breaker only
\* when the breaker is in the HalfOpen state entered for that probe; a probe
\* that completes in any other state, as after isolate() and dispose(),
\* leaves the state as it is.
C35_StaleProbeChangesNothing ==
  [][\A c \in Calls :
       (pc[c] = "probe" /\ pc'[c] = "done"
        /\ ~(state = "HalfOpen" /\ innerState.test = c)) =>
         innerState' = innerState]_vars

\* C36: every step from HalfOpen to Closed leaves the ConsecutiveBreaker
\* with its count at 0, so that with a threshold above 1 one handled failure
\* after it does not open the circuit; also when the probe threw an error
\* the policy does not handle.
C36_ClosingResetsCounters ==
  [][(state = "HalfOpen" /\ state' = "Closed") =>
       count' = 0 /\ ~BreakerFailure(count').open]_vars

\* C37: the breaker is Isolated exactly while a handle is not disposed, and
\* while it is Isolated the completion of a call, probe or waiter changes
\* neither the state nor emits on onBreak, onReset or any other emitter.
C37_IsolationDominates ==
  /\ [](state = "Isolated" <=> \E h \in Handles : live[h])
  /\ [](state = "Isolated" =>
          innerState.counters = Cardinality({h \in Handles : live[h]}))
  /\ [][\A c \in Calls :
          (state = "Isolated" /\ Completes(c)) =>
            innerState' = innerState /\ emitted' = <<>>]_vars

\* A call ended in a handled failure while the breaker was isolated, and
\* the strategy has counted enough failures to ask for the circuit to open.
C37_Witness ==
  /\ state = "Isolated"
  /\ \E c \in Calls :
       /\ pc[c] = "done"
       /\ result[c] = OwnResult(c, "error")
       /\ innerLastFailure = FailureReason(c)
  /\ count >= Threshold

\* C40: every call of fn the breaker makes, in the Closed case or as the
\* probe, is made with the signal its caller passed to execute, also when
\* the call waited on a half-open probe before.
C40_InvokedWithCallersSignal ==
  \A c \in Calls : pc[c] \in {"closed", "probe"} => signal[c] = "caller"

\* Job j has been accepted into the queue and its fn has not been called.
Waits(j) == \E i \in 1..Len(waitingOrder) : waitingOrder[i] = j

\* C38: a call accepted into the queue is not rejected with
\* BulkheadRejectedError afterwards, and the calls in the queue stand in the
\* order they were accepted in, no call behind one that was submitted later;
\* also when a call arrives after an item was taken off the queue and before
\* that item is started.
C38_QueuedKeepsItsPlace ==
  /\ [][\A j \in Jobs : Waits(j) => ~RejectedByBulkhead(j)]_bulkheadVars
  /\ [](queue = SelectSeq(waitingOrder, InQueue))

====
